---- MODULE Spec2Model ----
(***************************************************************************)
(* Connector metrics aggregation engine of the Data Extractor:             *)
(* the Tekla (tabular), Rhino, Navisworks and Tekla (JSON) batch           *)
(* processors, their operation classifier and their rate arithmetic.       *)
(*                                                                         *)
(* Strings that are searched by substring (operation names) are sequences  *)
(* of atomic words; "a in b" of the source is contiguous containment of    *)
(* the word sequence.  Values the source rounds to 2 decimals (minutes,    *)
(* seconds, element_per_min) are integers counting hundredths.             *)
(***************************************************************************)
EXTENDS Integers, Sequences, FiniteSets, TLC

VARIABLES
    connector,            \* which batch processor runs: "tekla", "rhino", "navis", "json", or "classify"
    file_paths,           \* the argument file_paths: the files handed to the batch processor
    csv_files,            \* the filtered list (csv_files / json_files)
    pc,                   \* position of the batch processor: "input" (not invoked yet), "pass1", "loop", "done"
    i,                    \* index into csv_files of the file the running loop handles next
    has_any_create_data,  \* Tekla first pass: a create total-time row was seen in some file
    has_any_read_data,    \* Tekla first pass: a read total-time row was seen in some file
    result,               \* what the latest per-file processing returned
    results,              \* model_data / results / export_results / create_results
    read_results,         \* Navisworks read_results / JSON load_results
    error_results,        \* JSON error_results
    ret,                  \* the value the batch processor returned
    output_callback,      \* whether the caller supplied output_callback (TRUE) or left it None
    status_callback,      \* whether the caller supplied status_callback (TRUE) or left it None
    output_log,           \* the calls output_callback received, in order
    status_log,           \* the calls status_callback received, in order
    file_name,            \* model-name call: the file name, a sequence of name parts
    json_data,            \* model-name call: the parsed JSON document
    model_name,           \* model-name call: the returned name
    operation_name,       \* classifier call: the operation id
    operation_map,        \* classifier call: the category table
    matched,              \* classifier call: the returned key
    gui,                  \* the shell that hosts the processors: "class" (DataExtractorGUI), "v2" (Data Extractor Version 2), "none" (called directly)
    connector_var,        \* GUI: the connector selected in the dropdown
    folder_entry,         \* GUI: the paths typed or browsed into the entry
    save_button,          \* GUI: state of the Save button, "disabled" or "normal"
    summary_df,           \* GUI: the stored summary (self.summary_df / summary_df_global)
    export_df,            \* class-based GUI: the stored Navisworks create table
    read_df,              \* class-based GUI: the stored Navisworks read table
    is_navisworks_dual,   \* class-based GUI: the Navisworks tables are saved separately
    table_shown,          \* class-based GUI: what the table area displays (self.table)
    messagebox            \* GUI: the dialog the latest handler showed, "none" for none

vars == <<connector, file_paths, csv_files, pc, i, has_any_create_data,
          has_any_read_data, result, results, read_results, error_results, ret,
          output_callback, status_callback, output_log, status_log,
          file_name, json_data, model_name,
          operation_name, operation_map, matched,
          gui, connector_var, folder_entry, save_button, summary_df, export_df,
          read_df, is_navisworks_dual, table_shown, messagebox>>

callbackVars == <<output_callback, status_callback>>

logVars == <<output_log, status_log>>

batchVars == <<connector, file_paths, csv_files, pc, i, has_any_create_data,
               has_any_read_data, result, results, read_results, error_results, ret,
               callbackVars, logVars>>

classifyVars == <<operation_name, operation_map, matched>>

nameVars == <<file_name, json_data, model_name>>

guiVars == <<gui, connector_var, folder_entry, save_button, summary_df, export_df,
             read_df, is_navisworks_dual, table_shown, messagebox>>

\* what a batch processor never touches
outsideBatch == <<classifyVars, nameVars, callbackVars, guiVars>>

(***************************************************************************)
(* Bounds                                                                  *)
(***************************************************************************)
\* total size of a batch: every file and every entry of a file counts one
MaxItems == 4
\* number of words of an operation id handed to the classifier
MaxIdLen == 3
\* entries of the Errors list of a failed document
MaxErrors == 4

\* Python's None as a returned summary or table, and "not assigned yet"
None == [py |-> "None"]
Unset == [py |-> "unassigned"]
\* None as a returned key: like the empty string it fails "if matched_op"
NoKey == << >>
\* pd.DataFrame(rows)
DataFrame(rows) == [df |-> rows]

\* no shell: the processors are called directly
GuiAbsent ==
    /\ gui = "none"
    /\ connector_var = ""
    /\ folder_entry = << >>
    /\ save_button = "disabled"
    /\ summary_df = None
    /\ export_df = None
    /\ read_df = None
    /\ is_navisworks_dual = FALSE
    /\ table_shown = None
    /\ messagebox = "none"

(***************************************************************************)
(* Category tables, in definition order (dict insertion order)             *)
(***************************************************************************)
tekla_create_operation_map ==
    << [pat |-> <<"ExportIFCTeklaAPI">>, cat |-> "IFC"],
       [pat |-> <<"CreateMeshGeometry">>, cat |-> "Mesh"],
       [pat |-> <<"CreateExchangeElementForPrimitive">>, cat |-> "Primitives"] >>

tekla_read_operation_map ==
    << [pat |-> <<"LoadBrepItemInTekla">>, cat |-> "IFC"],
       [pat |-> <<"LoadMeshInTekla">>, cat |-> "Mesh"],
       [pat |-> <<"LoadPrimitivesInTekla">>, cat |-> "Primitives"] >>

tekla_total_time_operation == <<"TotalTimeToCreateExchange">>
tekla_read_time_operation == <<"TotalExchangeReadTime">>

RHINO_CREATE_OPERATIONS ==
    << [pat |-> <<"CreateBrepElement:", "CreateBrepGeometry">>, cat |-> "Brep"],
       [pat |-> <<"CreateMeshElement:", "CreateMeshGeometry">>, cat |-> "Mesh"],
       [pat |-> <<"CreatePrimitiveElement:", "CreatePrimitiveGeometry">>, cat |-> "Primitive"],
       [pat |-> <<"CreateMeshGeometry">>, cat |-> "Mesh"],
       [pat |-> <<"CreateBrepGeometry">>, cat |-> "Brep"] >>

RHINO_READ_OPERATIONS ==
    << [pat |-> <<"LoadMeshInRhino">>, cat |-> "Mesh"],
       [pat |-> <<"LoadBrepInRhino">>, cat |-> "Brep"] >>

RHINO_CREATE_TIME_OPERATION == <<"UpdateExchangeAsync:", "TotalCreationTime">>
RHINO_READ_TIME_OPERATION == <<"TotalExchangeReadTime">>

NAVIS_CREATE_OPERATIONS ==
    << [pat |-> <<"ExportMeshCount">>, cat |-> "Mesh_Export"],
       [pat |-> <<"ExportLineCount">>, cat |-> "Line_Export"],
       [pat |-> <<"ExportPointCount">>, cat |-> "Point_Export"] >>

NAVIS_READ_OPERATIONS ==
    << [pat |-> <<"ReadBrepCount">>, cat |-> "Brep_Read"],
       [pat |-> <<"ReadMeshCount">>, cat |-> "Mesh_Read"],
       [pat |-> <<"ReadPrimitiveCount">>, cat |-> "Primitive_Read"] >>

NAVIS_CREATE_TIME_OPERATION == <<"UpdateExchangeAsync:", "TotalTimeToCreateExchange">>
NAVIS_READ_TIME_OPERATION == <<"TotalExchangeReadTime">>

\* navisworks_processor.py at the top of the repository: the same tables, its
\* own read total-time identifier, and the short identifiers of its partial
\* match
NAVIS_ROOT_CREATE_TIME_OPERATION == <<"UpdateExchangeAsync:", "TotalTimeToCreateExchange">>
NAVIS_ROOT_READ_TIME_OPERATION == <<"GetLatestExchangeDataAsync:", "TotalExchangeReadTime">>
NAVIS_ROOT_CREATE_PARTIAL == <<"TotalTimeToCreateExchange">>
NAVIS_ROOT_READ_PARTIAL == <<"TotalExchangeReadTime">>

JSON_CREATE_OPERATIONS == tekla_create_operation_map
JSON_READ_OPERATIONS == tekla_read_operation_map
JSON_CREATE_TIME_OPERATION == <<"TotalTimeToCreateExchange">>
JSON_READ_TIME_OPERATION == <<"TotalExchangeReadTime">>

(***************************************************************************)
(* Model names                                                             *)
(***************************************************************************)
\* JSON values, tagged with their type; a string is a sequence of parts
JDict(f) == [t |-> "dict", v |-> f]
JList(s) == [t |-> "list", v |-> s]
JStr(parts) == [t |-> "str", v |-> parts]
JInt(n) == [t |-> "int", v |-> n]
JNull == [t |-> "null", v |-> 0]

\* d.get(key, default) on a dict
JGet(d, key, default) == IF key \in DOMAIN d.v THEN d.v[key] ELSE default

\* "if exchange_name:"
Truthy(x) ==
    CASE x.t = "null" -> FALSE
      [] x.t = "int" -> x.v /= 0
      [] x.t = "str" -> x.v /= << >>
      [] x.t = "list" -> x.v /= << >>
      [] x.t = "dict" -> DOMAIN x.v /= {}

\* re.match(r"metrics_(.*?)_Demo.*\.csv", file_name): the position of the
\* "_Demo" that ends the shortest group from position j on, 0 for no match
RECURSIVE MatchFrom(_, _)
MatchFrom(name, j) ==
    IF j > Len(name) THEN 0
    ELSE IF name[j] = "_Demo" /\ \E k \in (j + 1)..Len(name) : name[k] = ".csv"
    THEN j
    ELSE MatchFrom(name, j + 1)

\* extract_model_name of the tabular processors
extract_model_name(name) ==
    LET j == IF name /= << >> /\ name[1] = "metrics_" THEN MatchFrom(name, 2) ELSE 0
    IN  IF j > 0 THEN JStr(SubSeq(name, 2, j - 1)) ELSE JStr(name)

\* os.path.splitext(name)[0]: the name up to its last extension part; a
\* leading extension part is no extension
splitext0(name) ==
    LET dots == { k \in 2..Len(name) : name[k] \in {".csv", ".json"} }
    IN  IF dots = {} THEN name
        ELSE SubSeq(name, 1, (CHOOSE k \in dots : \A n \in dots : n <= k) - 1)

\* the loop over Context.Exchanges; an operation on a value of the wrong
\* type raises and the handler returns the fallback
RECURSIVE ScanExchanges(_, _)
ScanExchanges(exchanges, fallback) ==
    IF exchanges = << >> THEN fallback
    ELSE LET exchange == Head(exchanges)
         IN  IF exchange.t /= "dict" THEN fallback
             ELSE LET exchange_info == JGet(exchange, "ExchangeInfo", JDict(<< >>))
                  IN  IF exchange_info.t /= "dict" THEN fallback
                      ELSE LET exchange_name == JGet(exchange_info, "ExchangeName", JNull)
                           IN  IF Truthy(exchange_name) THEN exchange_name
                               ELSE ScanExchanges(Tail(exchanges), fallback)

\* the file name pattern is tried before the document
extract_model_name_from_json_by_pattern(data, fallback_filename) ==
    LET j == IF fallback_filename /= << >> /\ fallback_filename[1] = "metrics_"
                /\ \E k \in 2..Len(fallback_filename) : fallback_filename[k] = "_Demo"
             THEN CHOOSE k \in 2..Len(fallback_filename) :
                     /\ fallback_filename[k] = "_Demo"
                     /\ \A n \in 2..(k - 1) : fallback_filename[n] /= "_Demo"
             ELSE 0
        fallback == JStr(splitext0(fallback_filename))
    IN  IF j > 0 THEN JStr(SubSeq(fallback_filename, 2, j - 1))
        ELSE IF data.t /= "dict" THEN fallback
        ELSE LET context == JGet(data, "Context", JDict(<< >>))
             IN  IF context.t /= "dict" THEN fallback
                 ELSE LET exchanges == JGet(context, "Exchanges", JList(<< >>))
                      IN  IF exchanges.t /= "list" THEN fallback
                          ELSE ScanExchanges(exchanges.v, fallback)

\* extract_model_name_from_json of the JSON processor
extract_model_name_from_json(data, fallback_filename) ==
    LET fallback == JStr(splitext0(fallback_filename))
    IN  IF data.t /= "dict" THEN fallback
        ELSE LET context == JGet(data, "Context", JDict(<< >>))
             IN  IF context.t /= "dict" THEN fallback
                 ELSE LET exchanges == JGet(context, "Exchanges", JList(<< >>))
                      IN  IF exchanges.t /= "list" THEN fallback
                          ELSE ScanExchanges(exchanges.v, fallback)

(***************************************************************************)
(* Operation classifier                                                    *)
(***************************************************************************)
\* key in op_name: the pattern occurs as a contiguous part of the id
Contains(key, op_name) ==
    \E k \in 0..(Len(op_name) - Len(key)) :
        SubSeq(op_name, k + 1, k + Len(key)) = key

RECURSIVE ScanFrom(_, _, _)
ScanFrom(op_name, map, k) ==
    IF k > Len(map) THEN NoKey
    ELSE IF Contains(map[k].pat, op_name) THEN map[k].pat
    ELSE ScanFrom(op_name, map, k + 1)

RECURSIVE ScanLast(_, _, _)
ScanLast(op_name, map, k) ==
    IF k < 1 THEN NoKey
    ELSE IF Contains(map[k].pat, op_name) THEN map[k].pat
    ELSE ScanLast(op_name, map, k - 1)

\* a classifier that keeps the last matching key instead of returning at the first
find_matching_operation_last(op_name, map) == ScanLast(op_name, map, Len(map))

\* for key in operation_map: if key in operation_name: return key
find_matching_operation(op_name, map) == ScanFrom(op_name, map, 1)

\* operation_map[key]
MapGet(map, key) ==
    LET k == CHOOSE k \in 1..Len(map) : map[k].pat = key IN map[k].cat

(***************************************************************************)
(* Rate arithmetic, in hundredths                                          *)
(***************************************************************************)
\* minutes that are never rounded down to 0
RoundMinutesUp(timing_ms) == (timing_ms + 599) \div 600

\* round(n / d, 0) for n >= 0, d > 0; an exact tie goes to the even neighbour
\* (the code rounds a binary fraction, so that on a tie that is no binary
\* fraction its result follows the representation; the inputs below give no
\* such tie)
RoundDiv(n, d) ==
    LET q == n \div d
        r == n % d
    IN  IF 2 * r > d THEN q + 1
        ELSE IF 2 * r < d THEN q
        ELSE IF q % 2 = 0 THEN q ELSE q + 1

\* round(timing_ms / 60000, 2), in hundredths of a minute
RoundMinutes(timing_ms) == RoundDiv(timing_ms, 600)

\* round(timing_ms / 1000, 2), in hundredths of a second
RoundSeconds(timing_ms) == RoundDiv(timing_ms, 10)

\* a rate cut to 2 decimals instead of rounded
calculate_elements_per_minute_truncated(total_elements, time_minutes) ==
    IF time_minutes > 0 THEN (total_elements * 10000) \div time_minutes ELSE 0

\* round(total_elements / time_minutes, 2) if time_minutes > 0 else 0;
\* time_minutes and the result are in hundredths
calculate_elements_per_minute(total_elements, time_minutes) ==
    IF time_minutes > 0 THEN RoundDiv(total_elements * 10000, time_minutes) ELSE 0

(***************************************************************************)
(* Input files                                                             *)
(***************************************************************************)
\* a row of a metrics CSV: "Operation Name", "#Events",
\* "Operation Time in Milliseconds"
Row(o, e, m) == [op_name |-> o, events |-> e, ms |-> m]

\* kind "csv"/"json": a readable file of the expected extension;
\* kind "bad": a file of the expected extension whose reading or parsing raises;
\* kind "skip": a path that is not a file of the expected extension;
\* kind "transient": a file whose first reading raises (it is held open by
\* another program, say) and whose later readings succeed
\* name: the parts of the file's base name; files of different folders may
\* bear the same one
DefaultName == <<"metrics_", "A", "_Demo", ".csv">>

OtherNames ==
    { <<"metrics_", "A", "_Demo", "2", ".csv">>, <<"metrics_", "B", "_Demo", ".csv">> }

CsvFile(k) == [kind |-> k, rows |-> << >>, name |-> DefaultName]

RhinoRows ==
    { Row(<<"CreateBrepElement:", "CreateBrepGeometry">>, 12, 0),
      Row(<<"CreateBrepGeometry", "CreateMeshGeometry">>, 1, 0),
      Row(<<"LoadMeshInRhino">>, 12, 0),
      Row(<<"LoadBrepInRhino", "CreatePrimitiveElement:", "CreatePrimitiveGeometry">>, 1, 0),
      Row(RHINO_CREATE_TIME_OPERATION, 0, 30000),
      Row(RHINO_CREATE_TIME_OPERATION, 1, 1800),
      Row(RHINO_READ_TIME_OPERATION, 0, 1800),
      Row(<<"Other", "TotalExchangeReadTime">>, 0, 30000) }

TeklaRows ==
    { Row(<<"ExportIFCTeklaAPI">>, 12, 0),
      Row(<<"CreateMeshGeometry", "ExportIFCTeklaAPI">>, 1, 0),
      Row(<<"CreateExchangeElementForPrimitive">>, 1, 200),
      Row(<<"LoadBrepItemInTekla">>, 12, 0),
      Row(<<"LoadMeshInTekla", "CreateMeshGeometry">>, 1, 0),
      Row(tekla_total_time_operation, 0, 30000),
      Row(tekla_total_time_operation, 1, 1800),
      Row(tekla_read_time_operation, 0, 1800),
      Row(<<"UpdateExchangeAsync:", "TotalTimeToCreateExchange">>, 0, 200) }

NavisRows ==
    { Row(<<"ExportMeshCount">>, 12, 0),
      Row(<<"ExportPointCount", "ExportLineCount">>, 1, 0),
      Row(<<"ExportMeshCount">>, 0, 0),
      Row(<<"ReadBrepCount">>, 12, 0),
      Row(<<"ReadMeshCount", "ExportLineCount">>, 1, 200),
      Row(NAVIS_CREATE_TIME_OPERATION, 0, 30000),
      Row(NAVIS_READ_TIME_OPERATION, 0, 1800),
      Row(NAVIS_READ_TIME_OPERATION, 1, 30000),
      Row(<<"TotalTimeToCreateExchange">>, 0, 1800),
      Row(<<"GetLatestExchangeDataAsync:", "TotalExchangeReadTime">>, 0, 200) }

NavisRootRows ==
    { Row(<<"ExportMeshCount">>, 12, 0),
      Row(<<"ExportPointCount", "ExportLineCount">>, 1, 0),
      Row(<<"ReadBrepCount">>, 12, 0),
      Row(NAVIS_ROOT_CREATE_TIME_OPERATION, 0, 30000),
      Row(NAVIS_ROOT_READ_TIME_OPERATION, 0, 1800),
      Row(<<"TotalTimeToCreateExchange">>, 0, 1800),
      Row(<<"Other", "TotalTimeToCreateExchange">>, 0, 200),
      Row(<<"TotalExchangeReadTime">>, 1, 30000) }

RowsOf(c) ==
    CASE c = "rhino" -> RhinoRows
      [] c = "tekla" -> TeklaRows
      [] c = "navis" -> NavisRows
      [] c = "navis_root" -> NavisRootRows

\* the batches of one more item than batch b: a new file, or a further row
\* in the last file
GrowCsv(c, b) ==
    { Append(b, CsvFile(k)) : k \in {"csv", "bad", "skip"} }
    \cup
    IF b /= << >> /\ b[Len(b)].kind = "csv"
    THEN { [b EXCEPT ![Len(b)].rows = Append(@, r)] : r \in RowsOf(c) }
    ELSE {}

(***************************************************************************)
(* Row arithmetic shared by the processors                                 *)
(***************************************************************************)
RECURSIVE SumSeq(_)
SumSeq(s) == IF s = << >> THEN 0 ELSE Head(s) + SumSeq(Tail(s))

\* df[df['Operation Name'] == op]
RowsNamed(rows, op) == SelectSeq(rows, LAMBDA r : r.op_name = op)

\* the elapsed time of the first row named op only
TimeFirst(rows, op) ==
    LET t == RowsNamed(rows, op)
    IN  IF t = << >> THEN 0 ELSE t[1].ms

\* time_rows["Operation Time in Milliseconds"].sum()
TimeSum(rows, op) ==
    LET t == RowsNamed(rows, op)
    IN  SumSeq([k \in 1..Len(t) |-> t[k].ms])

\* the events of every row, matched or not
CountEvery(rows, map, display_name) ==
    SumSeq([k \in 1..Len(rows) |-> rows[k].events])

\* the loop "for row: matched = find_matching_operation(...); if matched:
\* summary[operation_map[matched]] += row['#Events']", read off for one
\* display name
RECURSIVE CountInto(_, _, _)
CountInto(rows, map, display_name) ==
    IF rows = << >> THEN 0
    ELSE LET matched_op == find_matching_operation(Head(rows).op_name, map)
             add == IF matched_op /= NoKey /\ MapGet(map, matched_op) = display_name
                    THEN Head(rows).events ELSE 0
         IN  add + CountInto(Tail(rows), map, display_name)

(***************************************************************************)
(* Callbacks and what the table construction cannot convert                *)
(***************************************************************************)
\* a call the callback receives: its text (without the values formatted into
\* it) and the position in csv_files of the file it is about, 0 for none
Msg(text) == [event |-> text, file |-> 0]
FileMsg(text, k) == [event |-> text, file |-> k]

\* "if output_callback: output_callback(message)" for the messages in order;
\* print() reaches no callback and is not recorded
log_output(log, callback, messages) == IF callback THEN log \o messages ELSE log

\* the summary of a readable file (kind "nonfinite") one of whose matched
\* rows has the count inf: the count is carried into the summary
NonFinite == [py |-> "summary with a non-finite count"]

\* summary_df[col].fillna(0).astype(int) raises on a non-finite value
HasNonFinite(rows) == \E k \in 1..Len(rows) : rows[k] = NonFinite

(***************************************************************************)
(* Rhino: process_single_file                                              *)
(***************************************************************************)
\* summary = {"Data/Model": model_name, ...}
WithModel(f, summary) == [Data_Model |-> extract_model_name(f.name).v] @@ summary

RhinoSummary(mesh, brep, prim, total, msv, mins, rate) ==
    [Mesh |-> mesh, Brep |-> brep, Primitive |-> prim, total_elements |-> total,
     milliseconds |-> msv, minutes |-> mins, element_per_min |-> rate]

\* a phase choice that lets a read total-time row win over a create one
rhino_phase_read_first(rows) ==
    IF RowsNamed(rows, RHINO_READ_TIME_OPERATION) /= << >> THEN "read"
    ELSE IF RowsNamed(rows, RHINO_CREATE_TIME_OPERATION) /= << >> THEN "create"
    ELSE "none"

\* has_create_data / has_read_data and "Prefer create data over read data"
rhino_phase(rows) ==
    IF RowsNamed(rows, RHINO_CREATE_TIME_OPERATION) /= << >> THEN "create"
    ELSE IF RowsNamed(rows, RHINO_READ_TIME_OPERATION) /= << >> THEN "read"
    ELSE "none"

rhino_process_single_file(f) ==
    IF f.kind = "bad" THEN None
    ELSE IF f.kind = "nonfinite" THEN NonFinite
    ELSE LET phase == rhino_phase(f.rows)
             map == IF phase = "create" THEN RHINO_CREATE_OPERATIONS ELSE RHINO_READ_OPERATIONS
             top == IF phase = "create" THEN RHINO_CREATE_TIME_OPERATION
                    ELSE RHINO_READ_TIME_OPERATION
             mesh == CountInto(f.rows, map, "Mesh")
             brep == CountInto(f.rows, map, "Brep")
             prim == CountInto(f.rows, map, "Primitive")
             total == mesh + brep + prim
             timing_ms == TimeSum(f.rows, top)
             mins == RoundMinutes(timing_ms)
         IN  IF phase = "none" THEN WithModel(f, RhinoSummary(0, 0, 0, 0, 0, 0, 0))
             ELSE WithModel(f, RhinoSummary(mesh, brep, prim, total, timing_ms, mins,
                                            calculate_elements_per_minute(total, mins)))

(***************************************************************************)
(* Rhino: process_rhino_files                                              *)
(***************************************************************************)
\* [f for f in file_paths if f.endswith(ext) and os.path.isfile(f)]
ValidFiles(paths) == SelectSeq(paths, LAMBDA f : f.kind /= "skip")

RhinoStart ==
    /\ connector = "rhino" /\ pc = "input"
    /\ csv_files' = ValidFiles(file_paths)
    /\ IF csv_files' = << >>
       THEN pc' = "done" /\ ret' = None
       ELSE pc' = "loop" /\ ret' = ret
    /\ UNCHANGED <<connector, file_paths, i, has_any_create_data, has_any_read_data,
                   result, results, read_results, error_results>>
    /\ output_log' = IF csv_files' = << >>
                     THEN log_output(output_log, output_callback,
                                     << Msg("No valid CSV files found.") >>)
                     ELSE output_log
    /\ status_log' = status_log
    /\ UNCHANGED outsideBatch

\* the loop body with the append under "if output_callback:"
RhinoProcessUnderCallback ==
    /\ connector = "rhino" /\ pc = "loop" /\ i <= Len(csv_files)
    /\ result' = rhino_process_single_file(csv_files[i])
    /\ results' = IF output_callback /\ result' /= None
                  THEN Append(results, result') ELSE results
    /\ i' = i + 1
    /\ output_log' = log_output(output_log, output_callback, << FileMsg("Processing:", i) >>)
    /\ UNCHANGED <<connector, file_paths, csv_files, pc, has_any_create_data,
                   has_any_read_data, read_results, error_results, ret, status_log>>
    /\ UNCHANGED outsideBatch

RhinoProcess ==
    /\ connector = "rhino" /\ pc = "loop" /\ i <= Len(csv_files)
    /\ result' = rhino_process_single_file(csv_files[i])
    /\ results' = IF result' /= None THEN Append(results, result') ELSE results
    /\ i' = i + 1
    /\ UNCHANGED <<connector, file_paths, csv_files, pc, has_any_create_data,
                   has_any_read_data, read_results, error_results, ret>>
    /\ output_log' = log_output(output_log, output_callback, << FileMsg("Processing:", i) >>)
    /\ status_log' = status_log
    /\ UNCHANGED outsideBatch

RhinoFinish ==
    /\ connector = "rhino" /\ pc = "loop" /\ i > Len(csv_files)
    /\ IF results = << >>
       THEN /\ ret' = None /\ pc' = "done"
            /\ output_log' = log_output(output_log, output_callback,
                                        << Msg("No valid data found in CSV files.") >>)
            /\ status_log' = status_log
       ELSE IF HasNonFinite(results)
       THEN /\ pc' = "raised"
            /\ UNCHANGED <<ret, output_log, status_log>>
       ELSE /\ ret' = DataFrame(results) /\ pc' = "done"
            /\ status_log' = log_output(status_log, status_callback,
                                        << Msg("Rhino processing complete") >>)
            /\ output_log' = log_output(output_log, output_callback,
                                        << Msg("Successfully processed files") >>)
    /\ UNCHANGED <<connector, file_paths, csv_files, i, has_any_create_data,
                   has_any_read_data, result, results, read_results, error_results>>
    /\ UNCHANGED outsideBatch

NextRhino == RhinoStart \/ RhinoProcess \/ RhinoFinish

(***************************************************************************)
(* Tekla (tabular): process_tekla_csv_files                                *)
(***************************************************************************)
\* matched_df.groupby('Matched Operation')['#Events'].sum()[key], 0 when the
\* key has no group
\* the groups counted (rows per key) instead of their events summed
RECURSIVE GroupCount(_, _, _)
GroupCount(rows, map, key) ==
    IF rows = << >> THEN 0
    ELSE (IF find_matching_operation(Head(rows).op_name, map) = key
          THEN 1 ELSE 0) + GroupCount(Tail(rows), map, key)

RECURSIVE GroupSum(_, _, _)
GroupSum(rows, map, key) ==
    IF rows = << >> THEN 0
    ELSE (IF find_matching_operation(Head(rows).op_name, map) = key
          THEN Head(rows).events ELSE 0) + GroupSum(Tail(rows), map, key)

\* the key of the table that carries a display name (one key per display
\* name in both Tekla tables)
KeyOf(map, display_name) ==
    map[CHOOSE k \in 1..Len(map) : map[k].cat = display_name].pat

\* show_create_data, show_read_data and the operation_map they select
show_create_data == has_any_create_data
show_read_data == has_any_read_data /\ ~has_any_create_data

\* a phase decision taken from the file's own timing rows
tekla_phase_per_file(rows, any_create, any_read) ==
    IF RowsNamed(rows, tekla_total_time_operation) /= << >> THEN "create"
    ELSE IF RowsNamed(rows, tekla_read_time_operation) /= << >> THEN "read"
    ELSE "none"

\* the phase of the whole batch, from the flags of the first pass
tekla_phase(rows, any_create, any_read) ==
    IF any_create THEN "create"
    ELSE IF any_read THEN "read"
    ELSE "none"

\* the body of the second pass for one readable file
tekla_summary(rows, any_create, any_read) ==
    LET phase == tekla_phase(rows, any_create, any_read)
        map == IF phase = "read" THEN tekla_read_operation_map
               ELSE tekla_create_operation_map
        mesh == GroupSum(rows, map, KeyOf(map, "Mesh"))
        ifc == GroupSum(rows, map, KeyOf(map, "IFC"))
        prim == GroupSum(rows, map, KeyOf(map, "Primitives"))
        total == mesh + ifc + prim
        total_time_row == RowsNamed(rows, tekla_total_time_operation)
        read_time_row == RowsNamed(rows, tekla_read_time_operation)
        shown == IF phase = "create" /\ total_time_row /= << >> THEN "create"
                 ELSE IF phase = "read" /\ read_time_row /= << >> THEN "read"
                 ELSE "none"
        timing_ms == IF shown = "create" THEN TimeSum(rows, tekla_total_time_operation)
                     ELSE IF shown = "read" THEN TimeSum(rows, tekla_read_time_operation)
                     ELSE 0
        extra == IF shown = "create"
                 THEN [create_data_ms |-> timing_ms,
                       create_data_minutes |-> RoundMinutes(timing_ms),
                       create_data_seconds |-> RoundSeconds(timing_ms)]
                 ELSE IF shown = "read"
                 THEN [read_data_ms |-> timing_ms,
                       read_data_minutes |-> RoundMinutes(timing_ms),
                       read_data_seconds |-> RoundSeconds(timing_ms)]
                 ELSE << >>
    IN  [Mesh |-> mesh, IFC |-> ifc, Primitives |-> prim, total_elements |-> total,
         milliseconds |-> timing_ms, minutes |-> RoundMinutes(timing_ms),
         seconds |-> RoundSeconds(timing_ms),
         element_per_min |-> calculate_elements_per_minute(total, RoundMinutes(timing_ms))]
        @@ extra

\* pd.DataFrame(model_data) followed by fillna(0) on the numeric columns: a
\* column some row lacks is 0 in that row
FillFrame(rows) ==
    LET cols == UNION { DOMAIN rows[k] : k \in 1..Len(rows) }
    IN  [k \in 1..Len(rows) |->
            [c \in cols |-> IF c \in DOMAIN rows[k] THEN rows[k][c] ELSE 0]]

TeklaStart ==
    /\ connector = "tekla" /\ pc = "input"
    /\ csv_files' = ValidFiles(file_paths)
    /\ IF csv_files' = << >>
       THEN /\ pc' = "done" /\ ret' = None
            /\ output_log' = log_output(output_log, output_callback,
                                        << Msg("Processing Tekla files..."),
                                           Msg("No valid CSV files selected.") >>)
            /\ status_log' = log_output(status_log, status_callback,
                                        << Msg("Processing..."),
                                           Msg("No valid CSV files") >>)
       ELSE /\ pc' = "pass1" /\ ret' = ret
            /\ output_log' = log_output(output_log, output_callback,
                                        << Msg("Processing Tekla files...") >>)
            /\ status_log' = log_output(status_log, status_callback,
                                        << Msg("Processing...") >>)
    /\ UNCHANGED <<connector, file_paths, i, has_any_create_data, has_any_read_data,
                   result, results, read_results, error_results>>
    /\ UNCHANGED outsideBatch

\* first pass, one file: which total-time rows exist; a failing read is
\* reported and the file leaves the flags alone
TeklaFirstPass ==
    /\ connector = "tekla" /\ pc = "pass1" /\ i <= Len(csv_files)
    /\ LET f == csv_files[i]
       IN  IF f.kind \in {"bad", "transient"}
           THEN UNCHANGED <<has_any_create_data, has_any_read_data>>
           ELSE /\ has_any_create_data' =
                     (has_any_create_data
                      \/ RowsNamed(f.rows, tekla_total_time_operation) /= << >>)
                /\ has_any_read_data' =
                     (has_any_read_data
                      \/ RowsNamed(f.rows, tekla_read_time_operation) /= << >>)
    /\ i' = i + 1
    /\ UNCHANGED <<connector, file_paths, csv_files, pc, result, results,
                   read_results, error_results, ret>>
    /\ output_log' = IF csv_files[i].kind \in {"bad", "transient"}
                     THEN log_output(output_log, output_callback,
                                     << FileMsg("Error checking", i) >>)
                     ELSE output_log
    /\ status_log' = status_log
    /\ UNCHANGED outsideBatch

\* end of the first pass: the mapping is selected and the second pass begins
TeklaSelectMap ==
    /\ connector = "tekla" /\ pc = "pass1" /\ i > Len(csv_files)
    /\ pc' = "loop"
    /\ i' = 1
    /\ UNCHANGED <<connector, file_paths, csv_files, has_any_create_data,
                   has_any_read_data, result, results, read_results, error_results, ret>>
    /\ output_log' =
          log_output(output_log, output_callback,
                     (IF show_create_data THEN << Msg("Using CREATE operation mapping") >>
                      ELSE IF show_read_data THEN << Msg("Using READ operation mapping") >>
                      ELSE << >>)
                     \o << Msg("Data availability analysis:"), Msg("Create data found"),
                           Msg("Read data found"), Msg("Will display") >>)
    /\ status_log' = status_log
    /\ UNCHANGED outsideBatch

TeklaSecondPass ==
    /\ connector = "tekla" /\ pc = "loop" /\ i <= Len(csv_files)
    /\ LET f == csv_files[i]
       IN  result' = IF f.kind = "bad" THEN None
                     ELSE IF f.kind = "nonfinite" THEN NonFinite
                     ELSE WithModel(f, tekla_summary(f.rows, has_any_create_data,
                                                     has_any_read_data))
    /\ results' = IF result' /= None THEN Append(results, result') ELSE results
    /\ i' = i + 1
    /\ UNCHANGED <<connector, file_paths, csv_files, pc, has_any_create_data,
                   has_any_read_data, read_results, error_results, ret>>
    /\ output_log' = IF csv_files[i].kind = "bad"
                     THEN log_output(output_log, output_callback,
                                     << FileMsg("Error processing", i) >>)
                     ELSE output_log
    /\ status_log' = status_log
    /\ UNCHANGED outsideBatch

TeklaFinish ==
    /\ connector = "tekla" /\ pc = "loop" /\ i > Len(csv_files)
    /\ IF results = << >>
       THEN /\ ret' = None /\ pc' = "done"
            /\ output_log' = log_output(output_log, output_callback,
                                        << Msg("No matching operations found in any CSV files.") >>)
            /\ status_log' = log_output(status_log, status_callback,
                                        << Msg("No relevant data found") >>)
       ELSE IF HasNonFinite(results)
       THEN /\ pc' = "raised"
            /\ UNCHANGED <<ret, output_log, status_log>>
       ELSE /\ ret' = DataFrame(FillFrame(results)) /\ pc' = "done"
            /\ output_log' =
                  log_output(output_log, output_callback,
                             << Msg("===="), Msg("TEKLA PROCESSING SUMMARY"), Msg("====") >>
                             \o (IF show_create_data THEN << Msg("Displaying CREATE DATA") >>
                                 ELSE IF show_read_data THEN << Msg("Displaying READ DATA") >>
                                 ELSE << >>)
                             \o << Msg("table") >>)
            /\ status_log' = log_output(status_log, status_callback,
                                        << Msg("Processing complete. Click 'Save CSV' to export.") >>)
    /\ UNCHANGED <<connector, file_paths, csv_files, i, has_any_create_data,
                   has_any_read_data, result, results, read_results, error_results>>
    /\ UNCHANGED outsideBatch

NextTekla ==
    TeklaStart \/ TeklaFirstPass \/ TeklaSelectMap \/ TeklaSecondPass \/ TeklaFinish

(***************************************************************************)
(* Navisworks: process_single_file and process_navisworks_files            *)
(***************************************************************************)
NavisSummary(c1, c2, c3, msv, names) ==
    LET total == c1 + c2 + c3
        mins == RoundMinutes(msv)
    IN  (names[1] :> c1) @@ (names[2] :> c2) @@ (names[3] :> c3) @@
        [total_elements |-> total, milliseconds |-> msv, minutes |-> mins,
         element_per_min |-> calculate_elements_per_minute(total, mins)]

NavisExportNames == <<"Mesh_Export", "Line_Export", "Point_Export">>
NavisReadNames == <<"Brep_Read", "Mesh_Read", "Primitive_Read">>

\* every summary counts as one with data
HasCountsAlways(summary, names) == TRUE

\* "Only return summaries that have actual data": some count is non-zero
HasCounts(summary, names) == \E k \in 1..3 : summary[names[k]] > 0

\* a file with a total-time row of a phase always gets that phase's row
NavisEmitOnTiming(summary, names, has_time) == has_time \/ HasCounts(summary, names)

\* whether a phase's summary is returned
NavisEmit(summary, names, has_time) == HasCounts(summary, names)

\* a row that the export table matches is not looked up in the read table
navis_read_count_unless_exported(rows, display_name) ==
    CountInto(SelectSeq(rows, LAMBDA r :
                  find_matching_operation(r.op_name, NAVIS_CREATE_OPERATIONS) = NoKey),
              NAVIS_READ_OPERATIONS, display_name)

\* "read_matched_op = find_matching_operation(operation_name, READ_OPERATIONS);
\* if read_matched_op: read_summary[display_name] += events_count", for every
\* row, whether or not the export table matched it
navis_read_count(rows, display_name) ==
    CountInto(rows, NAVIS_READ_OPERATIONS, display_name)

navis_process_single_file(f) ==
    IF f.kind = "bad" THEN [export_result |-> None, read_result |-> None]
    ELSE IF f.kind = "nonfinite" THEN [export_result |-> NonFinite, read_result |-> None]
    ELSE LET has_create_data == RowsNamed(f.rows, NAVIS_CREATE_TIME_OPERATION) /= << >>
             has_read_data == RowsNamed(f.rows, NAVIS_READ_TIME_OPERATION) /= << >>
             export_summary ==
                 NavisSummary(CountInto(f.rows, NAVIS_CREATE_OPERATIONS, "Mesh_Export"),
                              CountInto(f.rows, NAVIS_CREATE_OPERATIONS, "Line_Export"),
                              CountInto(f.rows, NAVIS_CREATE_OPERATIONS, "Point_Export"),
                              IF has_create_data
                              THEN TimeSum(f.rows, NAVIS_CREATE_TIME_OPERATION) ELSE 0,
                              NavisExportNames)
             read_summary ==
                 NavisSummary(navis_read_count(f.rows, "Brep_Read"),
                              navis_read_count(f.rows, "Mesh_Read"),
                              navis_read_count(f.rows, "Primitive_Read"),
                              IF has_read_data
                              THEN TimeSum(f.rows, NAVIS_READ_TIME_OPERATION) ELSE 0,
                              NavisReadNames)
         IN  [export_result |->
                 IF NavisEmit(export_summary, NavisExportNames, has_create_data)
                 THEN WithModel(f, export_summary) ELSE None,
              read_result |->
                 IF NavisEmit(read_summary, NavisReadNames, has_read_data)
                 THEN WithModel(f, read_summary) ELSE None]

\* a table is built from an empty list as well
TableAlways(rows) == DataFrame(rows)

\* "export_df = None ... if export_results: export_df = pd.DataFrame(...)"
TableOrNone(rows) == IF rows /= << >> THEN DataFrame(rows) ELSE None

NavisStart ==
    /\ connector = "navis" /\ pc = "input"
    /\ csv_files' = ValidFiles(file_paths)
    /\ IF csv_files' = << >>
       THEN pc' = "done" /\ ret' = [export_df |-> None, read_df |-> None]
       ELSE pc' = "loop" /\ ret' = ret
    /\ UNCHANGED <<connector, file_paths, i, has_any_create_data, has_any_read_data,
                   result, results, read_results, error_results>>
    /\ output_log' = IF csv_files' = << >>
                     THEN log_output(output_log, output_callback,
                                     << Msg("No valid CSV files found.") >>)
                     ELSE output_log
    /\ status_log' = status_log
    /\ UNCHANGED outsideBatch

\* a loop body that puts the file's rows in front of the earlier ones
NavisProcessInFront ==
    /\ connector = "navis" /\ pc = "loop" /\ i <= Len(csv_files)
    /\ result' = navis_process_single_file(csv_files[i])
    /\ results' = IF result'.export_result /= None
                  THEN << result'.export_result >> \o results ELSE results
    /\ read_results' = IF result'.read_result /= None
                       THEN << result'.read_result >> \o read_results ELSE read_results
    /\ i' = i + 1
    /\ UNCHANGED <<connector, file_paths, csv_files, pc, has_any_create_data,
                   has_any_read_data, error_results, ret>>
    /\ output_log' = log_output(output_log, output_callback, << FileMsg("Processing:", i) >>)
    /\ status_log' = status_log
    /\ UNCHANGED outsideBatch

NavisProcess ==
    /\ connector = "navis" /\ pc = "loop" /\ i <= Len(csv_files)
    /\ result' = navis_process_single_file(csv_files[i])
    /\ results' = IF result'.export_result /= None
                  THEN Append(results, result'.export_result) ELSE results
    /\ read_results' = IF result'.read_result /= None
                       THEN Append(read_results, result'.read_result) ELSE read_results
    /\ i' = i + 1
    /\ UNCHANGED <<connector, file_paths, csv_files, pc, has_any_create_data,
                   has_any_read_data, error_results, ret>>
    /\ output_log' = log_output(output_log, output_callback, << FileMsg("Processing:", i) >>)
    /\ status_log' = status_log
    /\ UNCHANGED outsideBatch

NavisFinish ==
    /\ connector = "navis" /\ pc = "loop" /\ i > Len(csv_files)
    /\ IF HasNonFinite(results) \/ HasNonFinite(read_results)
       THEN /\ pc' = "raised"
            /\ UNCHANGED <<ret, output_log, status_log>>
       ELSE /\ ret' = [export_df |-> TableOrNone(results),
                       read_df |-> TableOrNone(read_results)]
            /\ pc' = "done"
            /\ status_log' = log_output(status_log, status_callback,
                                        << Msg("Navisworks processing complete") >>)
            /\ output_log' =
                  log_output(output_log, output_callback,
                             << Msg("Successfully processed files"),
                                Msg("Export data tables:"), Msg("Read data tables:"),
                                Msg("Export Data Counters:"),
                                Msg("- ExportMeshCount Counter for Mesh"),
                                Msg("- ExportLineCount Counter for Primitive"),
                                Msg("- ExportPointCount Counter for Primitive"),
                                Msg("Read Data Counters:"),
                                Msg("- ReadBrepCount Counter for Brep"),
                                Msg("- ReadMeshCount Counter for Mesh"),
                                Msg("- ReadPrimitiveCount Counter for primitive") >>)
    /\ UNCHANGED <<connector, file_paths, csv_files, i, has_any_create_data,
                   has_any_read_data, result, results, read_results, error_results>>
    /\ UNCHANGED outsideBatch

NextNavis == NavisStart \/ NavisProcess \/ NavisFinish

(***************************************************************************)
(* Navisworks, navisworks_processor.py at the top of the repository:       *)
(* process_single_file with its partial match, and process_navisworks_files*)
(***************************************************************************)
\* the rows named exactly op and nothing else
navis_root_time_rows_exact(rows, op, part) == RowsNamed(rows, op)

\* "time_rows = df[df['Operation Name'] == op]; if time_rows.empty:
\* time_rows = df[df['Operation Name'].str.contains(part)]"
navis_root_time_rows(rows, op, part) ==
    IF RowsNamed(rows, op) /= << >> THEN RowsNamed(rows, op)
    ELSE SelectSeq(rows, LAMBDA r : Contains(part, r.op_name))

navis_root_process_single_file(f) ==
    IF f.kind = "bad" THEN [export_result |-> None, read_result |-> None]
    ELSE IF f.kind = "nonfinite" THEN [export_result |-> NonFinite, read_result |-> None]
    ELSE LET create_rows == navis_root_time_rows(f.rows, NAVIS_ROOT_CREATE_TIME_OPERATION,
                                                 NAVIS_ROOT_CREATE_PARTIAL)
             read_rows == navis_root_time_rows(f.rows, NAVIS_ROOT_READ_TIME_OPERATION,
                                               NAVIS_ROOT_READ_PARTIAL)
             has_create_data == create_rows /= << >>
             has_read_data == read_rows /= << >>
             export_summary ==
                 NavisSummary(CountInto(f.rows, NAVIS_CREATE_OPERATIONS, "Mesh_Export"),
                              CountInto(f.rows, NAVIS_CREATE_OPERATIONS, "Line_Export"),
                              CountInto(f.rows, NAVIS_CREATE_OPERATIONS, "Point_Export"),
                              IF has_create_data
                              THEN SumSeq([k \in 1..Len(create_rows) |-> create_rows[k].ms])
                              ELSE 0,
                              NavisExportNames)
             read_summary ==
                 NavisSummary(CountInto(f.rows, NAVIS_READ_OPERATIONS, "Brep_Read"),
                              CountInto(f.rows, NAVIS_READ_OPERATIONS, "Mesh_Read"),
                              CountInto(f.rows, NAVIS_READ_OPERATIONS, "Primitive_Read"),
                              IF has_read_data
                              THEN SumSeq([k \in 1..Len(read_rows) |-> read_rows[k].ms])
                              ELSE 0,
                              NavisReadNames)
         IN  [export_result |->
                 IF HasCounts(export_summary, NavisExportNames)
                 THEN WithModel(f, export_summary) ELSE None,
              read_result |->
                 IF HasCounts(read_summary, NavisReadNames)
                 THEN WithModel(f, read_summary) ELSE None]

NavisRootStart ==
    /\ connector = "navis_root" /\ pc = "input"
    /\ csv_files' = ValidFiles(file_paths)
    /\ IF csv_files' = << >>
       THEN pc' = "done" /\ ret' = [export_df |-> None, read_df |-> None]
       ELSE pc' = "loop" /\ ret' = ret
    /\ UNCHANGED <<connector, file_paths, i, has_any_create_data, has_any_read_data,
                   result, results, read_results, error_results>>
    /\ output_log' = IF csv_files' = << >>
                     THEN log_output(output_log, output_callback,
                                     << Msg("No valid CSV files found.") >>)
                     ELSE output_log
    /\ status_log' = status_log
    /\ UNCHANGED outsideBatch

NavisRootProcess ==
    /\ connector = "navis_root" /\ pc = "loop" /\ i <= Len(csv_files)
    /\ result' = navis_root_process_single_file(csv_files[i])
    /\ results' = IF result'.export_result /= None
                  THEN Append(results, result'.export_result) ELSE results
    /\ read_results' = IF result'.read_result /= None
                       THEN Append(read_results, result'.read_result) ELSE read_results
    /\ i' = i + 1
    /\ UNCHANGED <<connector, file_paths, csv_files, pc, has_any_create_data,
                   has_any_read_data, error_results, ret>>
    /\ output_log' = log_output(output_log, output_callback, << FileMsg("Processing:", i) >>)
    /\ status_log' = status_log
    /\ UNCHANGED outsideBatch

NavisRootFinish ==
    /\ connector = "navis_root" /\ pc = "loop" /\ i > Len(csv_files)
    /\ IF HasNonFinite(results) \/ HasNonFinite(read_results)
       THEN /\ pc' = "raised"
            /\ UNCHANGED <<ret, output_log, status_log>>
       ELSE /\ ret' = [export_df |-> TableOrNone(results),
                       read_df |-> TableOrNone(read_results)]
            /\ pc' = "done"
            /\ status_log' = log_output(status_log, status_callback,
                                        << Msg("Navisworks processing complete") >>)
            /\ output_log' =
                  log_output(output_log, output_callback,
                             << Msg("Successfully processed files"),
                                Msg("Export data tables:"), Msg("Read data tables:"),
                                Msg("Export Data Counters:"),
                                Msg("- ExportMeshCount Counter for Mesh"),
                                Msg("- ExportLineCount Counter for Primitive"),
                                Msg("- ExportPointCount Counter for Primitive"),
                                Msg("Read Data Counters:"),
                                Msg("- ReadBrepCount Counter for Brep"),
                                Msg("- ReadMeshCount Counter for Mesh"),
                                Msg("- ReadPrimitiveCount Counter for primitive") >>)
    /\ UNCHANGED <<connector, file_paths, csv_files, i, has_any_create_data,
                   has_any_read_data, result, results, read_results, error_results>>
    /\ UNCHANGED outsideBatch

NextNavisRoot == NavisRootStart \/ NavisRootProcess \/ NavisRootFinish

(***************************************************************************)
(* Tekla (JSON): documents                                                 *)
(***************************************************************************)
\* d.get(k, default)
Get(d, k, default) == IF k \in DOMAIN d THEN d[k] ELSE default

\* a metrics document: Status, OperationType, PerformanceMetrics (entries
\* OperationName, Events, ElapsedMilliseconds, held as op_name, events, ms),
\* Errors (entries with optional Message and MethodName) and the
\* ElementCounts of Context.Exchanges[]
JsonDoc(k, st, ot) ==
    [kind |-> k, Status |-> st, OperationType |-> ot,
     rows |-> << >>, Errors |-> << >>, Exchanges |-> << >>]

JsonHeaders ==
    { JsonDoc("json", st, ot) :
        st \in {"Completed", "CompletedWithErrors"},
        ot \in {"CreateExchange", "LoadExchange", "LoadLatestExchange"} }
    \cup { JsonDoc("bad", "", ""), JsonDoc("skip", "", "") }

JsonMetrics ==
    { Row(<<"ExportIFCTeklaAPI">>, 12, 0),
      Row(<<"CreateMeshGeometry">>, 1, 0),
      Row(<<"LoadBrepItemInTekla">>, 12, 0),
      Row(JSON_CREATE_TIME_OPERATION, 0, 30000),
      Row(JSON_READ_TIME_OPERATION, 0, 1800) }

JsonErrors ==
    { [Message |-> "X"],
      [Message |-> "Y", MethodName |-> "M"],
      [MethodName |-> "N"] }

JsonElementCounts ==
    { [BRep |-> 2],
      [TotalElements |-> 1],
      [BRep |-> 2, CurveSet |-> 1, TotalElements |-> 20] }

\* the batches of one more item than b: a new document, or one more entry in
\* the last document (metrics are written before errors, errors before
\* exchanges; only a failed run writes errors)
GrowJson(b) ==
    { Append(b, h) : h \in JsonHeaders }
    \cup
    IF b /= << >> /\ b[Len(b)].kind = "json"
    THEN LET d == b[Len(b)]
         IN  (IF d.Errors = << >> /\ d.Exchanges = << >>
              THEN { [b EXCEPT ![Len(b)].rows = Append(@, r)] : r \in JsonMetrics }
              ELSE {})
             \cup
             (IF d.Status = "CompletedWithErrors" /\ d.Exchanges = << >>
              THEN { [b EXCEPT ![Len(b)].Errors = Append(@, e)] : e \in JsonErrors }
              ELSE {})
             \cup
             { [b EXCEPT ![Len(b)].Exchanges = Append(@, x)] : x \in JsonElementCounts }
    ELSE {}

(***************************************************************************)
(* Tekla (JSON): process_single_file                                       *)
(***************************************************************************)
\* the entries of error_summary: "<MethodName>: <Message>", or the message
\* alone when the entry names no method
ErrorEntry(error) ==
    LET message == Get(error, "Message", "Unknown error")
        method == Get(error, "MethodName", "")
    IN  IF method /= "" THEN method \o ": " \o message ELSE message

RECURSIVE Join(_)
\* "; ".join(strings)
Join(strings) ==
    IF strings = << >> THEN ""
    ELSE IF Len(strings) = 1 THEN strings[1]
    ELSE strings[1] \o "; " \o Join(Tail(strings))

\* error_summary[:3]
FirstThree(s) == SubSeq(s, 1, IF Len(s) < 3 THEN Len(s) ELSE 3)

\* every entry is reported
AllOf(s) == s

\* the slice applied to error_summary before joining
ErrorSlice(s) == FirstThree(s)

\* a failed document that is still classified and timed
json_is_failed_never(d) == FALSE

\* status == "CompletedWithErrors"
json_is_failed(d) == d.Status = "CompletedWithErrors"

json_error_details(errors) ==
    LET error_summary == [k \in 1..Len(errors) |-> ErrorEntry(errors[k])]
    IN  IF error_summary = << >>
        THEN "Processing completed with errors (no details available)"
        ELSE Join(ErrorSlice(error_summary))

\* the loop over Context.Exchanges: acc is <<IFC, Primitives, total_elements>>
RECURSIVE FoldExchanges(_, _)
FoldExchanges(exchanges, acc) ==
    IF exchanges = << >> THEN acc
    ELSE LET element_counts == Head(exchanges)
             total_from_exchange == Get(element_counts, "TotalElements", 0)
             next == IF DOMAIN element_counts = {} THEN acc
                     ELSE << acc[1] + Get(element_counts, "BRep", 0),
                             acc[2] + Get(element_counts, "CurveSet", 0),
                             IF total_from_exchange > acc[3]
                             THEN total_from_exchange ELSE acc[3] >>
         IN  FoldExchanges(Tail(exchanges), next)

JsonZero ==
    [Mesh |-> 0, IFC |-> 0, Primitives |-> 0, total_elements |-> 0,
     milliseconds |-> 0, minutes |-> 0, element_per_min |-> 0]

\* every OperationType that starts with "Load" is read as a load
json_operation_type_by_prefix(operation_type) ==
    IF operation_type = "CreateExchange" THEN "Create"
    ELSE IF operation_type \in {"LoadExchange", "LoadLatestExchange"} THEN "Load"
    ELSE ""

\* the Operation_Type the OperationType selects, "" for the types that are
\* skipped ("Exact match only, not LoadLatestExchange")
json_operation_type(operation_type) ==
    IF operation_type = "CreateExchange" THEN "Create"
    ELSE IF operation_type = "LoadExchange" THEN "Load"
    ELSE ""

json_process_single_file(d) ==
    IF d.kind = "bad" THEN None
    ELSE IF d.kind = "nonfinite" THEN NonFinite @@ [Operation_Type |-> "Create"]
    ELSE IF json_is_failed(d)
    THEN [Status |-> "ERROR", Error_Details |-> json_error_details(d.Errors)] @@ JsonZero
    ELSE IF d.rows = << >> THEN JsonZero
    ELSE IF json_operation_type(d.OperationType) = "" THEN None
    ELSE LET create == json_operation_type(d.OperationType) = "Create"
             map == IF create THEN JSON_CREATE_OPERATIONS ELSE JSON_READ_OPERATIONS
             top == IF create THEN JSON_CREATE_TIME_OPERATION ELSE JSON_READ_TIME_OPERATION
             acc == FoldExchanges(d.Exchanges,
                                  << CountInto(d.rows, map, "IFC"),
                                     CountInto(d.rows, map, "Primitives"), 0 >>)
             mesh == CountInto(d.rows, map, "Mesh")
             total == IF acc[3] = 0 THEN mesh + acc[1] + acc[2] ELSE acc[3]
             msv == TimeSum(d.rows, top)
             mins == IF msv > 0 THEN RoundMinutes(msv) ELSE 0
         IN  [Mesh |-> mesh, IFC |-> acc[1], Primitives |-> acc[2],
              total_elements |-> total, milliseconds |-> msv, minutes |-> mins,
              element_per_min |->
                  IF msv > 0 THEN calculate_elements_per_minute(total, mins) ELSE 0,
              Operation_Type |-> IF create THEN "Create" ELSE "Load"]

(***************************************************************************)
(* Tekla (JSON): process_tekla_json_files                                  *)
(***************************************************************************)
\* {k: v for k, v in result.items() if k != "Operation_Type"}
WithoutType(r) == [k \in (DOMAIN r) \ {"Operation_Type"} |-> r[k]]

\* _format_dataframe(pd.DataFrame(rows)): a column some row lacks is "" in
\* the string columns and 0 in the numeric ones
FormatFrame(rows) ==
    LET cols == UNION { DOMAIN rows[k] : k \in 1..Len(rows) }
    IN  [k \in 1..Len(rows) |->
            [c \in cols |->
                IF c \in DOMAIN rows[k] THEN rows[k][c]
                ELSE IF c \in {"Status", "Error_Details"} THEN "" ELSE 0]]

\* the error records are reported only next to successful create rows
json_all_create_results_with_create(create_results, error_results_) ==
    IF create_results = << >> THEN << >> ELSE create_results \o error_results_

\* the error records are put in front of the create rows
json_all_create_results_errors_first(create_results, error_results_) ==
    error_results_ \o create_results

\* all_create_results = create_results + error_results
json_all_create_results(create_results, error_results_) ==
    create_results \o error_results_

JsonStart ==
    /\ connector = "json" /\ pc = "input"
    /\ csv_files' = ValidFiles(file_paths)
    /\ IF csv_files' = << >>
       THEN pc' = "done" /\ ret' = None
       ELSE pc' = "loop" /\ ret' = ret
    /\ UNCHANGED <<connector, file_paths, i, has_any_create_data, has_any_read_data,
                   result, results, read_results, error_results>>
    /\ output_log' = IF csv_files' = << >>
                     THEN log_output(output_log, output_callback,
                                     << Msg("No valid JSON files found.") >>)
                     ELSE output_log
    /\ status_log' = status_log
    /\ UNCHANGED outsideBatch

\* a loop body that lists a summary without Operation_Type with the create
\* rows
JsonProcessKeepsUntyped ==
    /\ connector = "json" /\ pc = "loop" /\ i <= Len(csv_files)
    /\ result' = json_process_single_file(csv_files[i])
    /\ LET r == result'
           isError == r /= None /\ Get(r, "Status", "") = "ERROR"
           type == IF r = None THEN "" ELSE Get(r, "Operation_Type", "Create")
       IN  /\ error_results' = IF isError THEN Append(error_results, WithoutType(r))
                               ELSE error_results
           /\ results' = IF ~isError /\ type = "Create"
                         THEN Append(results, WithoutType(r)) ELSE results
           /\ read_results' = IF ~isError /\ type = "Load"
                              THEN Append(read_results, WithoutType(r)) ELSE read_results
    /\ i' = i + 1
    /\ UNCHANGED <<connector, file_paths, csv_files, pc, has_any_create_data,
                   has_any_read_data, ret>>
    /\ UNCHANGED logVars
    /\ UNCHANGED outsideBatch

JsonProcess ==
    /\ connector = "json" /\ pc = "loop" /\ i <= Len(csv_files)
    /\ result' = json_process_single_file(csv_files[i])
    /\ LET r == result'
           isError == r /= None /\ Get(r, "Status", "") = "ERROR"
           type == IF r = None THEN "" ELSE Get(r, "Operation_Type", "")
       IN  /\ error_results' = IF isError THEN Append(error_results, WithoutType(r))
                               ELSE error_results
           /\ results' = IF ~isError /\ type = "Create"
                         THEN Append(results, WithoutType(r)) ELSE results
           /\ read_results' = IF ~isError /\ type = "Load"
                              THEN Append(read_results, WithoutType(r)) ELSE read_results
    /\ i' = i + 1
    /\ UNCHANGED <<connector, file_paths, csv_files, pc, has_any_create_data,
                   has_any_read_data, ret>>
    /\ UNCHANGED logVars
    /\ UNCHANGED outsideBatch

JsonFinish ==
    /\ connector = "json" /\ pc = "loop" /\ i > Len(csv_files)
    /\ LET all_create_results == json_all_create_results(results, error_results)
           create_part == IF all_create_results /= << >>
                          THEN "create" :> DataFrame(FormatFrame(all_create_results))
                          ELSE << >>
           load_part == IF read_results /= << >>
                        THEN "load" :> DataFrame(FormatFrame(read_results))
                        ELSE << >>
           result_dict == create_part @@ load_part
       IN  IF HasNonFinite(all_create_results) \/ HasNonFinite(read_results)
           THEN /\ pc' = "raised"
                /\ UNCHANGED <<ret, output_log, status_log>>
           ELSE IF DOMAIN result_dict = {}
           THEN /\ ret' = None /\ pc' = "done"
                /\ output_log' =
                      log_output(output_log, output_callback,
                                 << Msg("No valid data found in JSON files with CreateExchange or LoadExchange operation types.") >>)
                /\ status_log' = status_log
           ELSE /\ ret' = result_dict /\ pc' = "done"
                /\ status_log' = log_output(status_log, status_callback,
                                            << Msg("Processing complete") >>)
                /\ output_log' = output_log
    /\ UNCHANGED <<connector, file_paths, csv_files, i, has_any_create_data,
                   has_any_read_data, result, results, read_results, error_results>>
    /\ UNCHANGED outsideBatch

NextJson == JsonStart \/ JsonProcess \/ JsonFinish

(***************************************************************************)
(* The environment: the metric logs handed to a batch processor            *)
(***************************************************************************)
\* files plus entries of a batch
RECURSIVE BatchSize(_)
BatchSize(b) ==
    IF b = << >> THEN 0
    ELSE LET f == Head(b)
         IN  1 + Len(f.rows)
             + (IF "Errors" \in DOMAIN f THEN Len(f.Errors) + Len(f.Exchanges) ELSE 0)
             + BatchSize(Tail(b))

\* a JSON document carries two header fields: one item less is left for batches
Budget(c) == IF c = "json" THEN MaxItems - 1 ELSE MaxItems

Grow(c, b) == IF c = "json" THEN GrowJson(b) ELSE GrowCsv(c, b)

\* one more file, or one more entry in the last file, before the processor
\* is invoked
ProvideInput ==
    /\ pc = "input"
    /\ BatchSize(file_paths) < Budget(connector)
    /\ file_paths' \in Grow(connector, file_paths)
    /\ UNCHANGED <<connector, csv_files, pc, i, has_any_create_data, has_any_read_data,
                   result, results, read_results, error_results, ret>>
    /\ UNCHANGED logVars
    /\ UNCHANGED outsideBatch

\* one more entry in the Errors list of a failed document
ProvideError ==
    /\ pc = "input"
    /\ Len(file_paths) = 1
    /\ Len(file_paths[1].Errors) < MaxErrors
    /\ \E e \in JsonErrors :
          file_paths' = [file_paths EXCEPT ![1].Errors = Append(@, e)]
    /\ UNCHANGED <<connector, csv_files, pc, i, has_any_create_data, has_any_read_data,
                   result, results, read_results, error_results, ret>>
    /\ UNCHANGED logVars
    /\ UNCHANGED outsideBatch

InitBatch(c) ==
    /\ connector = c
    /\ file_paths = << >>
    /\ csv_files = << >>
    /\ pc = "input"
    /\ i = 1
    /\ has_any_create_data = FALSE
    /\ has_any_read_data = FALSE
    /\ result = Unset
    /\ results = << >>
    /\ read_results = << >>
    /\ error_results = << >>
    /\ ret = Unset
    /\ operation_name = << >>
    /\ operation_map = << >>
    /\ matched = NoKey
    /\ output_callback = TRUE
    /\ status_callback = TRUE
    /\ output_log = << >>
    /\ status_log = << >>
    /\ file_name = << >>
    /\ json_data = None
    /\ model_name = Unset
    /\ GuiAbsent

SpecRhino == InitBatch("rhino") /\ [][ProvideInput \/ NextRhino]_vars
SpecTekla == InitBatch("tekla") /\ [][ProvideInput \/ NextTekla]_vars
SpecNavis == InitBatch("navis") /\ [][ProvideInput \/ NextNavis]_vars
SpecJson == InitBatch("json") /\ [][ProvideInput \/ NextJson]_vars

\* a single failed document whose Errors list grows to MaxErrors entries
InitErrors ==
    /\ InitBatch("json")!1
    /\ file_paths \in { << JsonDoc("json", "CompletedWithErrors", ot) >> :
                          ot \in {"CreateExchange", "LoadExchange", "LoadLatestExchange"} }
    /\ InitBatch("json")!3 /\ InitBatch("json")!4 /\ InitBatch("json")!5
    /\ InitBatch("json")!6 /\ InitBatch("json")!7 /\ InitBatch("json")!8
    /\ InitBatch("json")!9 /\ InitBatch("json")!10 /\ InitBatch("json")!11
    /\ InitBatch("json")!12 /\ InitBatch("json")!13 /\ InitBatch("json")!14
    /\ InitBatch("json")!15 /\ InitBatch("json")!16 /\ InitBatch("json")!17
    /\ InitBatch("json")!18 /\ InitBatch("json")!19 /\ InitBatch("json")!20
    /\ InitBatch("json")!21 /\ InitBatch("json")!22
    /\ GuiAbsent
SpecErrors == InitErrors /\ [][ProvideError \/ NextJson]_vars

(***************************************************************************)
(* The classifier on its own                                               *)
(***************************************************************************)
CategoryTables ==
    { tekla_create_operation_map, tekla_read_operation_map,
      RHINO_CREATE_OPERATIONS, RHINO_READ_OPERATIONS,
      NAVIS_CREATE_OPERATIONS, NAVIS_READ_OPERATIONS }

\* the words of a table's patterns, and one word of no pattern
WordsOf(map) ==
    UNION { { map[k].pat[j] : j \in 1..Len(map[k].pat) } : k \in 1..Len(map) }
    \cup {"Other"}

\* the operation id grows by one word
ProvideWord ==
    /\ connector = "classify" /\ pc = "input"
    /\ Len(operation_name) < MaxIdLen
    /\ \E w \in WordsOf(operation_map) : operation_name' = Append(operation_name, w)
    /\ UNCHANGED <<operation_map, matched>>
    /\ UNCHANGED <<batchVars, nameVars, guiVars>>

\* matched = find_matching_operation(operation_name, operation_map)
Classify ==
    /\ connector = "classify" /\ pc = "input"
    /\ matched' = find_matching_operation(operation_name, operation_map)
    /\ pc' = "done"
    /\ UNCHANGED <<operation_name, operation_map>>
    /\ UNCHANGED <<connector, file_paths, csv_files, i, has_any_create_data,
                   has_any_read_data, result, results, read_results, error_results, ret,
                   callbackVars, logVars, nameVars, guiVars>>

InitClassify ==
    /\ connector = "classify"
    /\ file_paths = << >> /\ csv_files = << >> /\ pc = "input" /\ i = 1
    /\ has_any_create_data = FALSE /\ has_any_read_data = FALSE
    /\ result = Unset /\ results = << >> /\ read_results = << >>
    /\ error_results = << >> /\ ret = Unset
    /\ operation_name = << >>
    /\ operation_map \in CategoryTables
    /\ matched = NoKey
    /\ output_callback = TRUE /\ status_callback = TRUE
    /\ output_log = << >> /\ status_log = << >>
    /\ file_name = << >> /\ json_data = None /\ model_name = Unset
    /\ GuiAbsent

SpecClassify == InitClassify /\ [][ProvideWord \/ Classify]_vars

(***************************************************************************)
(* Model names: the extraction on its own                                  *)
(***************************************************************************)
\* parts of the file names handed to the extraction
MaxNameLen == 4

NameParts(c) ==
    IF c = "name_csv" THEN {"metrics_", "A", "_Demo", "2", ".csv"}
    ELSE {"metrics_", "A", "_Demo", ".json"}

\* the documents handed to the extraction: well-formed ones and ones with a
\* value of the wrong type at each level
ExchangeNames == { JStr(<<"B">>), JStr(<< >>), JInt(5), JNull }

ExchangeShapes ==
    { JInt(7), JDict(<< >>), JDict("ExchangeInfo" :> JInt(7)),
      JDict("ExchangeInfo" :> JDict(<< >>)) }
    \cup { JDict("ExchangeInfo" :> JDict("ExchangeName" :> n)) : n \in ExchangeNames }

ExchangeLists ==
    { << >> } \cup { << x >> : x \in ExchangeShapes }
    \cup { << x, y >> : x \in ExchangeShapes,
                        y \in { JInt(7), JDict("ExchangeInfo" :>
                                                JDict("ExchangeName" :> JStr(<<"C">>))) } }

JsonShapes ==
    { JList(<< >>), JDict(<< >>), JDict("Context" :> JNull),
      JDict("Context" :> JDict(<< >>)),
      JDict("Context" :> JDict("Exchanges" :> JInt(7))) }
    \cup { JDict("Context" :> JDict("Exchanges" :> JList(xs))) : xs \in ExchangeLists }

\* the file name grows by one part
ProvideNamePart ==
    /\ connector \in {"name_csv", "name_json"} /\ pc = "input"
    /\ Len(file_name) < MaxNameLen
    /\ \E part \in NameParts(connector) : file_name' = Append(file_name, part)
    /\ UNCHANGED <<json_data, model_name>>
    /\ UNCHANGED <<batchVars, classifyVars, guiVars>>

\* model_name = extract_model_name(os.path.basename(csv_file))
ExtractCsv ==
    /\ connector = "name_csv" /\ pc = "input"
    /\ model_name' = extract_model_name(file_name)
    /\ pc' = "done"
    /\ UNCHANGED <<file_name, json_data>>
    /\ UNCHANGED <<connector, file_paths, csv_files, i, has_any_create_data,
                   has_any_read_data, result, results, read_results, error_results, ret,
                   callbackVars, logVars, classifyVars, guiVars>>

\* model_name = extract_model_name_from_json(data, os.path.basename(json_file))
ExtractJson ==
    /\ connector = "name_json" /\ pc = "input"
    /\ model_name' = extract_model_name_from_json(json_data, file_name)
    /\ pc' = "done"
    /\ UNCHANGED <<file_name, json_data>>
    /\ UNCHANGED <<connector, file_paths, csv_files, i, has_any_create_data,
                   has_any_read_data, result, results, read_results, error_results, ret,
                   callbackVars, logVars, classifyVars, guiVars>>

InitName ==
    /\ connector \in {"name_csv", "name_json"}
    /\ InitBatch("")!2 /\ InitBatch("")!3 /\ InitBatch("")!4 /\ InitBatch("")!5
    /\ InitBatch("")!6 /\ InitBatch("")!7 /\ InitBatch("")!8 /\ InitBatch("")!9
    /\ InitBatch("")!10 /\ InitBatch("")!11 /\ InitBatch("")!12 /\ InitBatch("")!13
    /\ InitBatch("")!14 /\ InitBatch("")!15 /\ InitBatch("")!16 /\ InitBatch("")!17
    /\ InitBatch("")!18 /\ InitBatch("")!19 /\ InitBatch("")!20
    /\ json_data \in (IF connector = "name_json" THEN JsonShapes ELSE {None})
    /\ InitBatch("")!22
    /\ GuiAbsent

SpecName == InitName /\ [][ProvideNamePart \/ ExtractCsv \/ ExtractJson]_vars

SpecNavisRoot == InitBatch("navis_root") /\ [][ProvideInput \/ NextNavisRoot]_vars

\* every batch processor, the top-level Navisworks one included
SpecEvery ==
    /\ \E c \in {"rhino", "tekla", "navis", "navis_root", "json"} : InitBatch(c)
    /\ [][ProvideInput \/ NextRhino \/ NextTekla \/ NextNavis \/ NextNavisRoot
              \/ NextJson]_vars

\* every batch processor on every bounded batch
Init == \E c \in {"rhino", "tekla", "navis", "json"} : InitBatch(c)
Next == ProvideInput \/ NextRhino \/ NextTekla \/ NextNavis \/ NextJson
Spec == Init /\ [][Next]_vars

\* one more file: a readable one with a matched row whose count is inf
\* (pd.read_csv reads "inf" and json.load reads 1e999 as the float inf)
ProvideNonFinite ==
    /\ pc = "input"
    /\ BatchSize(file_paths) < Budget(connector)
    /\ file_paths' = Append(file_paths,
                            IF connector = "json"
                            THEN JsonDoc("nonfinite", "Completed", "CreateExchange")
                            ELSE CsvFile("nonfinite"))
    /\ UNCHANGED <<connector, csv_files, pc, i, has_any_create_data, has_any_read_data,
                   result, results, read_results, error_results, ret>>
    /\ UNCHANGED logVars
    /\ UNCHANGED outsideBatch

\* one more readable file under another name
ProvideNamedFile ==
    /\ pc = "input"
    /\ BatchSize(file_paths) < Budget(connector)
    /\ \E n \in OtherNames :
          file_paths' = Append(file_paths, [CsvFile("csv") EXCEPT !.name = n])
    /\ UNCHANGED <<connector, csv_files, pc, i, has_any_create_data, has_any_read_data,
                   result, results, read_results, error_results, ret>>
    /\ UNCHANGED logVars
    /\ UNCHANGED outsideBatch

\* the tabular batch processors on files of several names
SpecNamed ==
    /\ \E c \in {"rhino", "tekla", "navis"} : InitBatch(c)
    /\ [][ProvideInput \/ ProvideNamedFile \/ NextRhino \/ NextTekla \/ NextNavis]_vars

\* one more file whose first reading fails, with one row
ProvideTransient ==
    /\ pc = "input"
    /\ BatchSize(file_paths) < Budget(connector) - 1
    /\ \E r \in RowsOf(connector) :
          file_paths' = Append(file_paths, [CsvFile("transient") EXCEPT !.rows = << r >>])
    /\ UNCHANGED <<connector, csv_files, pc, i, has_any_create_data, has_any_read_data,
                   result, results, read_results, error_results, ret>>
    /\ UNCHANGED logVars
    /\ UNCHANGED outsideBatch

\* the two-pass Tekla processor on batches that may hold such files
SpecTransient == InitBatch("tekla") /\ [][ProvideInput \/ ProvideTransient \/ NextTekla]_vars

\* one more completed document that carries one metric
ProvideMeasured ==
    /\ pc = "input" /\ connector = "json"
    /\ BatchSize(file_paths) < Budget(connector)
    /\ \E ot \in {"CreateExchange", "LoadExchange", "LoadLatestExchange"}, r \in JsonMetrics :
          file_paths' = Append(file_paths,
                               [JsonDoc("json", "Completed", ot) EXCEPT !.rows = << r >>])
    /\ UNCHANGED <<connector, csv_files, pc, i, has_any_create_data, has_any_read_data,
                   result, results, read_results, error_results, ret>>
    /\ UNCHANGED logVars
    /\ UNCHANGED outsideBatch

\* the JSON batch processor on batches that may hold two measured documents
SpecJsonMeasured == InitBatch("json") /\ [][ProvideInput \/ ProvideMeasured \/ NextJson]_vars

\* elapsed times of a few milliseconds
ShortTimes == {2, 299}

TimeOperations(c) ==
    IF c = "rhino" THEN {RHINO_CREATE_TIME_OPERATION, RHINO_READ_TIME_OPERATION}
    ELSE {JSON_CREATE_TIME_OPERATION, JSON_READ_TIME_OPERATION}

\* one more total-time row of a few milliseconds in the last file
ProvideShortTiming ==
    /\ pc = "input"
    /\ BatchSize(file_paths) < Budget(connector)
    /\ file_paths /= << >>
    /\ file_paths[Len(file_paths)].kind \in {"csv", "json"}
    /\ \E op \in TimeOperations(connector), t \in ShortTimes :
          file_paths' = [file_paths EXCEPT ![Len(file_paths)].rows = Append(@, Row(op, 0, t))]
    /\ UNCHANGED <<connector, csv_files, pc, i, has_any_create_data, has_any_read_data,
                   result, results, read_results, error_results, ret>>
    /\ UNCHANGED logVars
    /\ UNCHANGED outsideBatch

\* the Rhino and JSON batch processors on files with such rows
SpecShort ==
    /\ \E c \in {"rhino", "json"} : InitBatch(c)
    /\ [][ProvideInput \/ ProvideShortTiming \/ NextRhino \/ NextJson]_vars

\* every batch processor on batches that may hold non-finite counts
SpecNonFinite ==
    (\E c \in {"rhino", "tekla", "navis", "json"} : InitBatch(c))
    /\ [][ProvideInput \/ ProvideNonFinite
          \/ NextRhino \/ NextTekla \/ NextNavis \/ NextJson]_vars

\* one more file or entry while the batch is one item below the budget
ProvideFew ==
    /\ BatchSize(file_paths) < Budget(connector) - 1
    /\ ProvideInput

\* every batch processor, called with and without each callback
InitCallbacks ==
    /\ \E c \in {"rhino", "tekla", "navis", "json"} : InitBatch(c)!1
    /\ InitBatch("")!2 /\ InitBatch("")!3 /\ InitBatch("")!4 /\ InitBatch("")!5
    /\ InitBatch("")!6 /\ InitBatch("")!7 /\ InitBatch("")!8 /\ InitBatch("")!9
    /\ InitBatch("")!10 /\ InitBatch("")!11 /\ InitBatch("")!12 /\ InitBatch("")!13
    /\ InitBatch("")!14 /\ InitBatch("")!15
    /\ output_callback \in BOOLEAN
    /\ status_callback \in BOOLEAN
    /\ InitBatch("")!18 /\ InitBatch("")!19 /\ InitBatch("")!20 /\ InitBatch("")!21
    /\ InitBatch("")!22
    /\ GuiAbsent
SpecCallbacks ==
    InitCallbacks /\ [][ProvideFew \/ NextRhino \/ NextTekla \/ NextNavis \/ NextJson]_vars

(***************************************************************************)
(* The GUI shells: DataExtractorGUI (class-based) and Data Extractor       *)
(* Version 2 (function-based).  A handler runs to its end before the event *)
(* loop takes the next click; pc = "idle" is the event loop waiting.       *)
(***************************************************************************)
\* total size of what the entry names: every path and every row counts one
MaxEntryItems == 2

\* the locals of the running handler and of the processor it calls
callVars == <<connector, file_paths, csv_files, pc, i, has_any_create_data,
              has_any_read_data, result, results, read_results, error_results, ret>>

\* kind "missing": a typed path that is no file.
\* [f for f in entry_value.split(";") if os.path.isfile(f)]
resolve_file_paths(entry_value) == SelectSeq(entry_value, LAMBDA f : f.kind /= "missing")

\* connector_dropdown['values']
ConnectorChoices(g) ==
    IF g = "class" THEN {"Tekla", "Rhino", "Navisworks"} ELSE {"Tekla", "Rhino"}

\* rows of the files the user picks for the selected connector
GuiRows(c) ==
    CASE c = "Tekla" -> { Row(<<"ExportIFCTeklaAPI">>, 12, 0),
                          Row(tekla_total_time_operation, 0, 30000) }
      [] c = "Rhino" -> { Row(<<"CreateBrepElement:", "CreateBrepGeometry">>, 12, 0),
                          Row(RHINO_CREATE_TIME_OPERATION, 0, 30000) }
      [] c = "Navisworks" -> { Row(<<"ExportMeshCount">>, 12, 0),
                               Row(<<"ReadMeshCount", "ExportLineCount">>, 1, 200) }

\* the entries of one more item than entry b
GrowEntry(c, b) ==
    { Append(b, CsvFile(k)) : k \in {"csv", "bad", "skip", "missing", "nonfinite"} }
    \cup
    IF b /= << >> /\ b[Len(b)].kind = "csv"
    THEN { [b EXCEPT ![Len(b)].rows = Append(@, r)] : r \in GuiRows(c) }
    ELSE {}

\* the user browses or types one more path, or picks a file with one more row
GuiEdit ==
    /\ gui /= "none" /\ pc = "idle"
    /\ BatchSize(folder_entry) < MaxEntryItems
    /\ folder_entry' \in GrowEntry(connector_var, folder_entry)
    /\ UNCHANGED <<gui, connector_var, save_button, summary_df, export_df, read_df,
                   is_navisworks_dual, table_shown, messagebox>>
    /\ UNCHANGED <<callVars, logVars, callbackVars, classifyVars, nameVars>>

\* the user empties the entry
GuiClear ==
    /\ gui /= "none" /\ pc = "idle"
    /\ folder_entry /= << >>
    /\ folder_entry' = << >>
    /\ UNCHANGED <<gui, connector_var, save_button, summary_df, export_df, read_df,
                   is_navisworks_dual, table_shown, messagebox>>
    /\ UNCHANGED <<callVars, logVars, callbackVars, classifyVars, nameVars>>

\* the user picks another connector in the dropdown
GuiSelect ==
    /\ gui /= "none" /\ pc = "idle"
    /\ \E c \in ConnectorChoices(gui) \ {connector_var} : connector_var' = c
    /\ UNCHANGED <<gui, folder_entry, save_button, summary_df, export_df, read_df,
                   is_navisworks_dual, table_shown, messagebox>>
    /\ UNCHANGED <<callVars, logVars, callbackVars, classifyVars, nameVars>>

\* the handler returns to the event loop: its locals are gone
Returned ==
    /\ pc' = "idle" /\ connector' = "none"
    /\ file_paths' = << >> /\ csv_files' = << >> /\ i' = 1
    /\ has_any_create_data' = FALSE /\ has_any_read_data' = FALSE
    /\ result' = Unset /\ results' = << >> /\ read_results' = << >>
    /\ error_results' = << >> /\ ret' = Unset

\* a Run that leaves the Save button as it finds it
keep_on_run(state) == state

\* self.save_button.config(state="disabled"), the first statement of
\* run_processing
disable_on_run(state) == "disabled"

\* the processor behind a dropdown value of the class-based GUI
ProcessorOf(c) ==
    CASE c = "Tekla" -> "tekla" [] c = "Rhino" -> "rhino" [] c = "Navisworks" -> "navis"

\* "df is not None and not df.empty"
is_saveable(df) == df /= None /\ df.df /= << >>

\* DataExtractorGUI.run_processing up to the call of the processor; the
\* dropdown is read-only, so the final else (no valid connector) is not taken
run_processing ==
    /\ gui = "class" /\ pc = "idle"
    /\ save_button' = disable_on_run(save_button)
    /\ summary_df' = None /\ export_df' = None /\ read_df' = None
    /\ is_navisworks_dual' = FALSE
    /\ table_shown' = None
    /\ IF folder_entry = << >>
       THEN /\ messagebox' = "Please select files or folder first!"
            /\ UNCHANGED callVars
       ELSE IF resolve_file_paths(folder_entry) = << >>
       THEN /\ messagebox' = "No CSV files found"
            /\ UNCHANGED callVars
       ELSE /\ messagebox' = "none"
            /\ connector' = ProcessorOf(connector_var)
            /\ file_paths' = resolve_file_paths(folder_entry)
            /\ pc' = "input"
            /\ UNCHANGED <<csv_files, i, has_any_create_data, has_any_read_data,
                           result, results, read_results, error_results, ret>>
    /\ UNCHANGED <<gui, connector_var, folder_entry>>
    /\ UNCHANGED <<logVars, callbackVars, classifyVars, nameVars>>

\* "self.summary_df = process_..._files(file_paths)" and
\* _handle_processing_result, or the except branch when the processor raised
handle_processing_result ==
    /\ gui = "class" /\ connector \in {"tekla", "rhino"} /\ pc \in {"done", "raised"}
    /\ IF pc = "raised"
       THEN /\ messagebox' = "Processing failed"
            /\ UNCHANGED <<summary_df, save_button, table_shown>>
       ELSE /\ summary_df' = ret
            /\ IF is_saveable(ret)
               THEN /\ save_button' = "normal"
                    /\ table_shown' = ret
                    /\ messagebox' = messagebox
               ELSE /\ messagebox' = "No Data"
                    /\ UNCHANGED <<save_button, table_shown>>
    /\ Returned
    /\ UNCHANGED <<gui, connector_var, folder_entry, export_df, read_df,
                   is_navisworks_dual>>
    /\ UNCHANGED <<logVars, callbackVars, classifyVars, nameVars>>

\* export_copy['Data_Type'] = t
WithDataType(df, t) == [k \in 1..Len(df.df) |-> [Data_Type |-> t] @@ df.df[k]]

\* pd.concat([export_copy, read_copy], ignore_index=True)
CombinedTables(e, r) == DataFrame(WithDataType(e, "Export") \o WithDataType(r, "Read"))

\* "result = process_navisworks_files(file_paths)" and
\* _handle_navisworks_result, or the except branch when the processor raised
handle_navisworks_result ==
    /\ gui = "class" /\ connector = "navis" /\ pc \in {"done", "raised"}
    /\ IF pc = "raised"
       THEN /\ messagebox' = "Processing failed"
            /\ UNCHANGED <<summary_df, export_df, read_df, is_navisworks_dual,
                           save_button, table_shown>>
       ELSE IF ret.export_df = None /\ ret.read_df = None
       THEN /\ messagebox' = "No Data"
            /\ UNCHANGED <<summary_df, export_df, read_df, is_navisworks_dual,
                           save_button, table_shown>>
       ELSE LET has_export_data == is_saveable(ret.export_df)
                has_read_data == is_saveable(ret.read_df)
            IN  IF has_export_data /\ has_read_data
                THEN /\ table_shown' = ret
                     /\ export_df' = ret.export_df
                     /\ read_df' = ret.read_df
                     /\ is_navisworks_dual' = TRUE
                     /\ summary_df' = CombinedTables(ret.export_df, ret.read_df)
                     /\ save_button' = "normal"
                     /\ messagebox' = messagebox
                ELSE IF has_export_data
                THEN /\ export_df' = ret.export_df
                     /\ read_df' = None
                     /\ is_navisworks_dual' = TRUE
                     /\ summary_df' = ret.export_df
                     /\ save_button' = "normal"
                     /\ table_shown' = ret.export_df
                     /\ messagebox' = messagebox
                ELSE IF has_read_data
                THEN /\ export_df' = None
                     /\ read_df' = ret.read_df
                     /\ is_navisworks_dual' = TRUE
                     /\ summary_df' = ret.read_df
                     /\ save_button' = "normal"
                     /\ table_shown' = ret.read_df
                     /\ messagebox' = messagebox
                ELSE /\ messagebox' = "No export or read data found"
                     /\ UNCHANGED <<summary_df, export_df, read_df, is_navisworks_dual,
                                    save_button, table_shown>>
    /\ Returned
    /\ UNCHANGED <<gui, connector_var, folder_entry>>
    /\ UNCHANGED <<logVars, callbackVars, classifyVars, nameVars>>

\* DataExtractorGUI.save_csv, reached by a click on the enabled button; the
\* writing of the CSV files (of summary_df, or of export_df and read_df when
\* is_navisworks_dual) succeeds or fails, and the files are not read again
save_csv ==
    /\ gui = "class" /\ pc = "idle" /\ save_button = "normal"
    /\ IF ~is_saveable(summary_df)
       THEN messagebox' = "No summary available to save."
       ELSE IF resolve_file_paths(folder_entry) = << >>
       THEN messagebox' = "Invalid file selection!"
       ELSE \E written \in BOOLEAN :
               messagebox' = IF written THEN "Success" ELSE "Failed to save CSV file!"
    /\ UNCHANGED <<gui, connector_var, folder_entry, save_button, summary_df, export_df,
                   read_df, is_navisworks_dual, table_shown>>
    /\ UNCHANGED <<callVars, logVars, callbackVars, classifyVars, nameVars>>

\* Version 2: operation_name_map, in definition order
operation_name_map ==
    << [pat |-> <<"ExportIFCTeklaAPI">>, cat |-> "IFC"],
       [pat |-> <<"CreateMeshGeometry">>, cat |-> "Mesh"],
       [pat |-> <<"CreateExchangeElementForPrimitive">>, cat |-> "Primitives"] >>

total_time_operation == <<"TotalTimeToCreateExchange">>

\* status_label.config(text=...): the label shows the latest text only
set_status(text) == << Msg(text) >>

\* Version 2: the body of the loop of process_tekla_csv_files for one
\* readable file
v2_summary(f) ==
    [Data_Model |-> extract_model_name(f.name).v,
     Mesh |-> GroupSum(f.rows, operation_name_map, KeyOf(operation_name_map, "Mesh")),
     IFC |-> GroupSum(f.rows, operation_name_map, KeyOf(operation_name_map, "IFC")),
     Primitives |-> GroupSum(f.rows, operation_name_map,
                             KeyOf(operation_name_map, "Primitives")),
     milliseconds |-> TimeSum(f.rows, total_time_operation)]

\* summary_df["minutes"] = (summary_df["milliseconds"] / 60000).round(2)
v2_frame(rows) ==
    DataFrame([k \in 1..Len(rows) |->
                  [minutes |-> RoundMinutes(rows[k].milliseconds)] @@ rows[k]])

\* Version 2: run_processing up to the call of the processor
run_processing_v2 ==
    /\ gui = "v2" /\ pc = "idle"
    /\ save_button' = "disabled"
    /\ IF resolve_file_paths(folder_entry) = << >>
       THEN /\ messagebox' = "Please select valid CSV files or a folder"
            /\ UNCHANGED <<callVars, logVars>>
       ELSE IF connector_var = "Tekla"
       THEN /\ messagebox' = "none"
            /\ output_log' = << >>
            /\ status_log' = status_log
            /\ connector' = "tekla_v2"
            /\ file_paths' = resolve_file_paths(folder_entry)
            /\ pc' = "input"
            /\ UNCHANGED <<csv_files, i, has_any_create_data, has_any_read_data,
                           result, results, read_results, error_results, ret>>
       ELSE /\ messagebox' = "none"
            /\ output_log' = << Msg("Rhino processing logic placeholder..."),
                                Msg("Add your Rhino-specific data processing here.") >>
            /\ status_log' = set_status("Rhino logic not yet implemented")
            /\ UNCHANGED callVars
    /\ UNCHANGED <<gui, connector_var, folder_entry, summary_df, export_df, read_df,
                   is_navisworks_dual, table_shown>>
    /\ UNCHANGED <<callbackVars, classifyVars, nameVars>>

\* Version 2: process_tekla_csv_files down to the filter of the paths
V2TeklaStart ==
    /\ connector = "tekla_v2" /\ pc = "input"
    /\ IF ValidFiles(file_paths) = << >>
       THEN /\ output_log' = output_log \o << Msg("Processing Tekla files..."),
                                              Msg("No valid CSV files selected.") >>
            /\ status_log' = set_status("No valid CSV files")
            /\ Returned
       ELSE /\ output_log' = Append(output_log, Msg("Processing Tekla files..."))
            /\ status_log' = set_status("Processing...")
            /\ csv_files' = ValidFiles(file_paths)
            /\ pc' = "loop"
            /\ UNCHANGED <<connector, file_paths, i, has_any_create_data,
                           has_any_read_data, result, results, read_results,
                           error_results, ret>>
    /\ UNCHANGED <<guiVars, callbackVars, classifyVars, nameVars>>

\* Version 2: the loop body, one file; a failure is written to the console
\* and the file adds nothing
V2TeklaProcess ==
    /\ connector = "tekla_v2" /\ pc = "loop" /\ i <= Len(csv_files)
    /\ LET f == csv_files[i]
       IN  /\ result' = IF f.kind = "bad" THEN None
                        ELSE IF f.kind = "nonfinite" THEN NonFinite
                        ELSE v2_summary(f)
           /\ output_log' = output_log \o << FileMsg("Processing:", i) >>
                            \o (IF f.kind = "bad" THEN << FileMsg("Error processing", i) >>
                                ELSE << >>)
    /\ results' = IF result' /= None THEN Append(results, result') ELSE results
    /\ i' = i + 1
    /\ UNCHANGED <<connector, file_paths, csv_files, pc, has_any_create_data,
                   has_any_read_data, read_results, error_results, ret, status_log>>
    /\ UNCHANGED <<guiVars, callbackVars, classifyVars, nameVars>>

\* Version 2: after the loop; astype(int) raises on a non-finite count and
\* the exception leaves run_processing
V2TeklaFinish ==
    /\ connector = "tekla_v2" /\ pc = "loop" /\ i > Len(csv_files)
    /\ IF results = << >>
       THEN /\ output_log' = Append(output_log,
                                    Msg("No matching operations found in any CSV files."))
            /\ status_log' = set_status("No relevant data found")
            /\ UNCHANGED <<summary_df, save_button>>
       ELSE IF HasNonFinite(results)
       THEN UNCHANGED <<output_log, status_log, summary_df, save_button>>
       ELSE /\ summary_df' = v2_frame(results)
            /\ output_log' = output_log \o << Msg("===== Final Summary ====="),
                                              Msg("table") >>
            /\ status_log' =
                  set_status("Processing complete. Click 'Save CSV Now' to export.")
            /\ save_button' = "normal"
    /\ Returned
    /\ UNCHANGED <<gui, connector_var, folder_entry, export_df, read_df,
                   is_navisworks_dual, table_shown, messagebox>>
    /\ UNCHANGED <<callbackVars, classifyVars, nameVars>>

\* lines the console holds before the user runs again (a Run clears it)
MaxConsole == 6

\* Version 2: save_summary_csv, reached by a click on the enabled button
save_summary_csv ==
    /\ gui = "v2" /\ pc = "idle" /\ save_button = "normal"
    /\ Len(output_log) < MaxConsole
    /\ IF ~is_saveable(summary_df)
       THEN /\ messagebox' = "No summary available to save."
            /\ UNCHANGED <<output_log, status_log>>
       ELSE IF resolve_file_paths(folder_entry) = << >>
       THEN /\ messagebox' = "Invalid file or folder selection!"
            /\ UNCHANGED <<output_log, status_log>>
       ELSE \E written \in BOOLEAN :
               IF written
               THEN /\ output_log' = Append(output_log, Msg("CSV successfully saved"))
                    /\ status_log' = set_status("CSV saved")
                    /\ messagebox' = "none"
               ELSE /\ messagebox' = "none"
                    /\ UNCHANGED <<output_log, status_log>>
    /\ UNCHANGED <<gui, connector_var, folder_entry, save_button, summary_df, export_df,
                   read_df, is_navisworks_dual, table_shown>>
    /\ UNCHANGED <<callVars, callbackVars, classifyVars, nameVars>>

InitGui ==
    /\ gui \in {"class", "v2"}
    /\ connector_var = "Tekla"
    /\ folder_entry = << >>
    /\ save_button = "disabled"
    /\ summary_df = None /\ export_df = None /\ read_df = None
    /\ is_navisworks_dual = FALSE
    /\ table_shown = None
    /\ messagebox = "none"
    /\ pc = "idle" /\ connector = "none"
    /\ file_paths = << >> /\ csv_files = << >> /\ i = 1
    /\ has_any_create_data = FALSE /\ has_any_read_data = FALSE
    /\ result = Unset /\ results = << >> /\ read_results = << >>
    /\ error_results = << >> /\ ret = Unset
    /\ output_callback = FALSE /\ status_callback = FALSE
    /\ output_log = << >> /\ status_log = << >>
    /\ operation_name = << >> /\ operation_map = << >> /\ matched = NoKey
    /\ file_name = << >> /\ json_data = None /\ model_name = Unset

NextGui ==
    \/ GuiEdit \/ GuiClear \/ GuiSelect
    \/ run_processing \/ NextTekla \/ NextRhino \/ NextNavis
    \/ handle_processing_result \/ handle_navisworks_result \/ save_csv
    \/ run_processing_v2 \/ V2TeklaStart \/ V2TeklaProcess \/ V2TeklaFinish
    \/ save_summary_csv

SpecGui == InitGui /\ [][NextGui]_vars

(***************************************************************************)
(* Vocabulary of the properties                                            *)
(***************************************************************************)
\* the table positions whose pattern occurs in the id
Hits(name, map) == { k \in 1..Len(map) : Contains(map[k].pat, name) }

Earliest(S) == CHOOSE k \in S : \A j \in S : k <= j

\* the category an id belongs to under a table, "" when it has none
CategoryOf(name, map) ==
    IF Hits(name, map) = {} THEN "" ELSE map[Earliest(Hits(name, map))].cat

RECURSIVE SumOver(_, _)
SumOver(S, val) ==
    IF S = {} THEN 0
    ELSE LET k == CHOOSE k \in S : TRUE IN val[k] + SumOver(S \ {k}, val)

\* events of the rows whose id belongs to category cat under the table
CategoryEvents(rows, map, cat) ==
    SumOver({ k \in 1..Len(rows) : CategoryOf(rows[k].op_name, map) = cat },
            [k \in 1..Len(rows) |-> rows[k].events])

\* elapsed time of the rows named exactly op
NamedMillis(rows, op) ==
    SumOver({ k \in 1..Len(rows) : rows[k].op_name = op },
            [k \in 1..Len(rows) |-> rows[k].ms])

HasRow(rows, op) == \E k \in 1..Len(rows) : rows[k].op_name = op

\* the batch loop has handled a file; LastFile is that file
Processed == pc \in {"loop", "done"} /\ i > 1
LastFile == csv_files[i - 1]

\* readable files among the first n of the filtered list
ReadableUpTo(n) == Cardinality({ k \in 1..n : csv_files[k].kind /= "bad" })

\* x is n / d rounded to the nearest integer
Nearest(x, n, d) ==
    LET diff == IF x * d >= n THEN x * d - n ELSE n - x * d IN 2 * diff <= d

(***************************************************************************)
(* C1: classification scans the table in definition order and returns the  *)
(* first pattern contained in the id: no pattern contained gives none, one *)
(* gives that pattern and its category, several give the pattern listed    *)
(* earliest.                                                               *)
(***************************************************************************)
C1_FirstPatternWins ==
    (connector = "classify" /\ pc = "done") =>
        LET hits == Hits(operation_name, operation_map)
        IN  /\ hits = {} => matched = NoKey
            /\ hits /= {} =>
                  /\ matched = operation_map[Earliest(hits)].pat
                  /\ \A k \in hits : k >= Earliest(hits)
                  /\ MapGet(operation_map, matched)
                        = operation_map[Earliest(hits)].cat
            /\ Cardinality(hits) = 1 =>
                  \A k \in hits : matched = operation_map[k].pat

\* an id containing patterns of two categories has been classified
C1_Witness ==
    /\ connector = "classify" /\ pc = "done"
    /\ \E j, k \in Hits(operation_name, operation_map) :
          /\ j < k
          /\ operation_map[j].cat /= operation_map[k].cat
          /\ matched = operation_map[j].pat

(***************************************************************************)
(* C2: Rhino: a file with a create total-time row is summarised with the   *)
(* create table and the create timing rows alone, also when a read         *)
(* total-time row is present; the read table and read timing are used only *)
(* when the file has no create total-time row.                             *)
(***************************************************************************)
C2_RhinoCreateGoverns ==
    (connector = "rhino" /\ Processed /\ LastFile.kind = "csv") =>
        LET rows == LastFile.rows
            create == HasRow(rows, RHINO_CREATE_TIME_OPERATION)
            read == HasRow(rows, RHINO_READ_TIME_OPERATION)
            map == IF create THEN RHINO_CREATE_OPERATIONS ELSE RHINO_READ_OPERATIONS
            top == IF create THEN RHINO_CREATE_TIME_OPERATION
                   ELSE RHINO_READ_TIME_OPERATION
        IN  (create \/ read) =>
               /\ result.Mesh = CategoryEvents(rows, map, "Mesh")
               /\ result.Brep = CategoryEvents(rows, map, "Brep")
               /\ result.Primitive = CategoryEvents(rows, map, "Primitive")
               /\ result.milliseconds = NamedMillis(rows, top)

\* a file with both total-time rows and a row of a read pattern was
\* summarised from its create rows
C2_Witness ==
    /\ connector = "rhino" /\ Processed /\ LastFile.kind = "csv"
    /\ HasRow(LastFile.rows, RHINO_CREATE_TIME_OPERATION)
    /\ HasRow(LastFile.rows, RHINO_READ_TIME_OPERATION)
    /\ \E k \in 1..Len(LastFile.rows) :
          /\ Hits(LastFile.rows[k].op_name, RHINO_READ_OPERATIONS) /= {}
          /\ LastFile.rows[k].events > 0
    /\ result.milliseconds = NamedMillis(LastFile.rows, RHINO_CREATE_TIME_OPERATION)
    /\ result.milliseconds /= NamedMillis(LastFile.rows, RHINO_READ_TIME_OPERATION)

(***************************************************************************)
(* C3 as stated: Tekla decides the phase of a file from that file's own    *)
(* timing rows: a file with a read total-time row and no create total-time *)
(* row is classified with the read table and reports its read elapsed      *)
(* time, whatever the other files of the batch contain.                    *)
(***************************************************************************)
C3_PerFilePhase ==
    (connector = "tekla" /\ Processed /\ LastFile.kind = "csv") =>
        LET rows == LastFile.rows
        IN  (HasRow(rows, tekla_read_time_operation)
             /\ ~HasRow(rows, tekla_total_time_operation)) =>
               /\ result.Mesh = CategoryEvents(rows, tekla_read_operation_map, "Mesh")
               /\ result.IFC = CategoryEvents(rows, tekla_read_operation_map, "IFC")
               /\ result.Primitives
                     = CategoryEvents(rows, tekla_read_operation_map, "Primitives")
               /\ result.milliseconds = NamedMillis(rows, tekla_read_time_operation)

\* some readable file of the batch has a create total-time row
BatchHasCreate ==
    \E k \in 1..Len(csv_files) :
        /\ csv_files[k].kind = "csv"
        /\ HasRow(csv_files[k].rows, tekla_total_time_operation)

(***************************************************************************)
(* C3 amended: Tekla decides the phase once for the batch: a file with a   *)
(* read total-time row and no create total-time row is classified with the *)
(* read table and reports its read elapsed time when no readable file of   *)
(* the batch has a create total-time row; when some readable file has one, *)
(* it is classified with the create table and reports elapsed time 0.      *)
(***************************************************************************)
C3_BatchPhase ==
    (connector = "tekla" /\ Processed /\ LastFile.kind = "csv") =>
        LET rows == LastFile.rows
            map == IF BatchHasCreate THEN tekla_create_operation_map
                   ELSE tekla_read_operation_map
        IN  (HasRow(rows, tekla_read_time_operation)
             /\ ~HasRow(rows, tekla_total_time_operation)) =>
               /\ result.Mesh = CategoryEvents(rows, map, "Mesh")
               /\ result.IFC = CategoryEvents(rows, map, "IFC")
               /\ result.Primitives = CategoryEvents(rows, map, "Primitives")
               /\ result.milliseconds =
                     IF BatchHasCreate THEN 0
                     ELSE NamedMillis(rows, tekla_read_time_operation)

\* a read-only file was handled in a batch that holds a create file
C3_Witness ==
    /\ connector = "tekla" /\ Processed /\ LastFile.kind = "csv"
    /\ HasRow(LastFile.rows, tekla_read_time_operation)
    /\ ~HasRow(LastFile.rows, tekla_total_time_operation)
    /\ NamedMillis(LastFile.rows, tekla_read_time_operation) > 0
    /\ BatchHasCreate
    /\ result.milliseconds = 0

(***************************************************************************)
(* C4                                                                      *)
(***************************************************************************)
BothTimingRows(rows, create_op, read_op) == HasRow(rows, create_op) /\ HasRow(rows, read_op)

\* a Navisworks row carries the file's own counts under the table and the
\* elapsed time of the rows named op, and is the last row of its table
NavisOwnRow(row, rows, map, op, table) ==
    /\ \A k \in 1..Len(map) : row[map[k].cat] = CategoryEvents(rows, map, map[k].cat)
    /\ row.milliseconds = NamedMillis(rows, op)
    /\ table /= << >> /\ table[Len(table)] = row

NavisSomeCount(rows, map) ==
    \E k \in 1..Len(map) : CategoryEvents(rows, map, map[k].cat) > 0

\* Tekla/Rhino: a file with both total-time rows gives exactly one row,
\* classified as create
SingleCreateRow ==
    /\ (connector = "rhino" /\ Processed /\ LastFile.kind = "csv"
        /\ BothTimingRows(LastFile.rows, RHINO_CREATE_TIME_OPERATION,
                          RHINO_READ_TIME_OPERATION)) =>
          /\ result /= None
          /\ result.Mesh = CategoryEvents(LastFile.rows, RHINO_CREATE_OPERATIONS, "Mesh")
          /\ result.Brep = CategoryEvents(LastFile.rows, RHINO_CREATE_OPERATIONS, "Brep")
          /\ result.Primitive
                = CategoryEvents(LastFile.rows, RHINO_CREATE_OPERATIONS, "Primitive")
          /\ result.milliseconds
                = NamedMillis(LastFile.rows, RHINO_CREATE_TIME_OPERATION)
          /\ Len(results) = ReadableUpTo(i - 1)
          /\ results[Len(results)] = result
    /\ (connector = "tekla" /\ Processed /\ LastFile.kind = "csv"
        /\ BothTimingRows(LastFile.rows, tekla_total_time_operation,
                          tekla_read_time_operation)) =>
          /\ result /= None
          /\ result.Mesh = CategoryEvents(LastFile.rows, tekla_create_operation_map, "Mesh")
          /\ result.IFC = CategoryEvents(LastFile.rows, tekla_create_operation_map, "IFC")
          /\ result.Primitives
                = CategoryEvents(LastFile.rows, tekla_create_operation_map, "Primitives")
          /\ result.milliseconds = NamedMillis(LastFile.rows, tekla_total_time_operation)
          /\ Len(results) = ReadableUpTo(i - 1)
          /\ results[Len(results)] = result

(***************************************************************************)
(* C4 as stated: every Navisworks file with a create and a read total-time *)
(* row produces two rows, one per table, each with its own counts and its  *)
(* own elapsed time; a Tekla or Rhino file with both rows produces exactly *)
(* one row, classified as create.                                          *)
(***************************************************************************)
C4_AlwaysTwoRows ==
    /\ (connector = "navis" /\ Processed /\ LastFile.kind = "csv"
        /\ BothTimingRows(LastFile.rows, NAVIS_CREATE_TIME_OPERATION,
                          NAVIS_READ_TIME_OPERATION)) =>
          /\ result.export_result /= None
          /\ result.read_result /= None
          /\ NavisOwnRow(result.export_result, LastFile.rows, NAVIS_CREATE_OPERATIONS,
                         NAVIS_CREATE_TIME_OPERATION, results)
          /\ NavisOwnRow(result.read_result, LastFile.rows, NAVIS_READ_OPERATIONS,
                         NAVIS_READ_TIME_OPERATION, read_results)
    /\ SingleCreateRow

(***************************************************************************)
(* C4 amended: a Navisworks file with a create and a read total-time row   *)
(* produces a row in the export table exactly when one of its export       *)
(* counts is above zero and a row in the read table exactly when one of    *)
(* its read counts is above zero (two rows when both hold, none when it    *)
(* has no counts), each with its own counts and its own elapsed time; a    *)
(* readable Tekla or Rhino file with both rows produces exactly one row,   *)
(* classified as create.                                                   *)
(***************************************************************************)
C4_RowsWhereCounts ==
    /\ (connector = "navis" /\ Processed /\ LastFile.kind = "csv"
        /\ BothTimingRows(LastFile.rows, NAVIS_CREATE_TIME_OPERATION,
                          NAVIS_READ_TIME_OPERATION)) =>
          /\ result.export_result /= None
                <=> NavisSomeCount(LastFile.rows, NAVIS_CREATE_OPERATIONS)
          /\ result.read_result /= None
                <=> NavisSomeCount(LastFile.rows, NAVIS_READ_OPERATIONS)
          /\ result.export_result /= None =>
                NavisOwnRow(result.export_result, LastFile.rows, NAVIS_CREATE_OPERATIONS,
                            NAVIS_CREATE_TIME_OPERATION, results)
          /\ result.read_result /= None =>
                NavisOwnRow(result.read_result, LastFile.rows, NAVIS_READ_OPERATIONS,
                            NAVIS_READ_TIME_OPERATION, read_results)
    /\ SingleCreateRow

\* a Navisworks file with both total-time rows gave two rows with different
\* elapsed times
C4_Witness ==
    /\ connector = "navis" /\ Processed /\ LastFile.kind = "csv"
    /\ BothTimingRows(LastFile.rows, NAVIS_CREATE_TIME_OPERATION, NAVIS_READ_TIME_OPERATION)
    /\ result.export_result /= None
    /\ result.read_result /= None
    /\ result.export_result.milliseconds > 0
    /\ result.read_result.milliseconds > 0
    /\ result.export_result.milliseconds /= result.read_result.milliseconds

(***************************************************************************)
(* Rows of the output tables                                               *)
(***************************************************************************)
CategoryNames ==
    {"Mesh", "IFC", "Primitives", "Brep", "Primitive", "Mesh_Export", "Line_Export",
     "Point_Export", "Brep_Read", "Mesh_Read", "Primitive_Read"}

\* sum of the category fields of a row
CategorySum(row) == SumOver((DOMAIN row) \cap CategoryNames, row)

\* every row appended to a table so far
TableRows ==
    { results[k] : k \in 1..Len(results) }
    \cup { read_results[k] : k \in 1..Len(read_results) }
    \cup { error_results[k] : k \in 1..Len(error_results) }

\* the latest JSON document gave a summary row that went into a table
JsonSummarised ==
    /\ connector = "json" /\ Processed /\ LastFile.kind = "json"
    /\ result /= None
    /\ "Operation_Type" \in DOMAIN result

\* the largest TotalElements of the document's exchanges, 0 without one
AuthoritativeTotal(exchanges) ==
    LET totals == { Get(exchanges[k], "TotalElements", 0) : k \in 1..Len(exchanges) } \cup {0}
    IN  CHOOSE t \in totals : \A u \in totals : u <= t

(***************************************************************************)
(* C5: in every emitted row total_elements is at least the sum of the      *)
(* row's category fields; it is that sum unless the document supplies a    *)
(* grand total strictly larger than the sum, and then it is that total (a  *)
(* positive TotalElements below the local sum leaves the local sum).       *)
(***************************************************************************)
C5_TotalAtLeastSum ==
    /\ \A row \in TableRows : row.total_elements >= CategorySum(row)
    /\ connector \in {"rhino", "tekla", "navis"} =>
          \A row \in TableRows : row.total_elements = CategorySum(row)
    /\ JsonSummarised =>
          LET auth == AuthoritativeTotal(LastFile.Exchanges)
          IN  result.total_elements =
                 IF auth > CategorySum(result) THEN auth ELSE CategorySum(result)

(***************************************************************************)
(* C6: in a JSON document with authoritative element counts the IFC field  *)
(* equals the BRep count and the Primitives field the CurveSet count (over *)
(* the document's exchanges), replacing what the PerformanceMetrics        *)
(* samples gave for the category.                                          *)
(***************************************************************************)
C6_AuthoritativeOverrides ==
    JsonSummarised =>
        LET ex == LastFile.Exchanges
            brep == { k \in 1..Len(ex) : "BRep" \in DOMAIN ex[k] }
            curve == { k \in 1..Len(ex) : "CurveSet" \in DOMAIN ex[k] }
        IN  /\ brep /= {} =>
                  result.IFC = SumOver(brep, [k \in 1..Len(ex) |-> Get(ex[k], "BRep", 0)])
            /\ curve /= {} =>
                  result.Primitives
                     = SumOver(curve, [k \in 1..Len(ex) |-> Get(ex[k], "CurveSet", 0)])

(***************************************************************************)
(* C7: in every emitted row minutes is milliseconds / 60000 rounded to 2   *)
(* decimals, and element_per_min is 0 when minutes is 0 and otherwise      *)
(* total_elements / minutes rounded to 2 decimals.                         *)
(***************************************************************************)
C7_RateFromRoundedMinutes ==
    \A row \in TableRows :
        /\ Nearest(row.minutes, row.milliseconds, 600)
        /\ row.minutes = 0 => row.element_per_min = 0
        /\ row.minutes > 0 =>
              Nearest(row.element_per_min, row.total_elements * 10000, row.minutes)

\* a row whose rate had to be rounded up, and a row with time but 0 minutes
C7_Witness ==
    /\ \E row \in TableRows :
          /\ row.minutes > 0
          /\ 2 * ((row.total_elements * 10000) % row.minutes) > row.minutes
          /\ row.element_per_min * row.minutes > row.total_elements * 10000

(***************************************************************************)
(* C8: the batch of one file with rows ("ExportIFCTeklaAPI", 12, 0) and    *)
(* ("TotalTimeToCreateExchange", 0, 30000) yields exactly one row: IFC 12, *)
(* Mesh 0, Primitives 0, total_elements 12, milliseconds 30000, minutes    *)
(* 0.5, element_per_min 24.0.                                              *)
(***************************************************************************)
C8_Batch ==
    << [kind |-> "csv", name |-> DefaultName,
        rows |-> << Row(<<"ExportIFCTeklaAPI">>, 12, 0),
                    Row(<<"TotalTimeToCreateExchange">>, 0, 30000) >>] >>

C8_TeklaExample ==
    (connector = "tekla" /\ pc = "done" /\ file_paths = C8_Batch) =>
        /\ ret /= None
        /\ Len(ret.df) = 1
        /\ ret.df[1].IFC = 12
        /\ ret.df[1].Mesh = 0
        /\ ret.df[1].Primitives = 0
        /\ ret.df[1].total_elements = 12
        /\ ret.df[1].milliseconds = 30000
        /\ ret.df[1].minutes = 50
        /\ ret.df[1].element_per_min = 2400

C8_Witness == connector = "tekla" /\ pc = "done" /\ file_paths = C8_Batch

(***************************************************************************)
(* C9: a JSON document whose Status is "CompletedWithErrors" yields        *)
(* exactly one ErrorRecord (Status "ERROR") with all counts, total, time   *)
(* and rate zero, whatever its OperationType, PerformanceMetrics and       *)
(* ElementCounts; it is neither classified nor timed.                      *)
(***************************************************************************)
FailedUpTo(n) ==
    Cardinality({ k \in 1..n : csv_files[k].kind = "json"
                                 /\ csv_files[k].Status = "CompletedWithErrors" })

IsZeroErrorRecord(row) ==
    /\ row /= None
    /\ Get(row, "Status", "") = "ERROR"
    /\ "Operation_Type" \notin DOMAIN row
    /\ row.Mesh = 0 /\ row.IFC = 0 /\ row.Primitives = 0
    /\ row.total_elements = 0 /\ row.milliseconds = 0
    /\ row.minutes = 0 /\ row.element_per_min = 0

C9_FailedGivesOneErrorRecord ==
    (connector = "json" /\ pc \in {"loop", "done"}) =>
        /\ (i > 1 /\ LastFile.kind = "json" /\ LastFile.Status = "CompletedWithErrors") =>
              /\ IsZeroErrorRecord(result)
              /\ error_results /= << >>
              /\ error_results[Len(error_results)] = result
        /\ Len(error_results) = FailedUpTo(i - 1)
        /\ \A k \in 1..Len(error_results) : IsZeroErrorRecord(error_results[k])
        /\ \A k \in 1..Len(results) : Get(results[k], "Status", "") /= "ERROR"
        /\ \A k \in 1..Len(read_results) : Get(read_results[k], "Status", "") /= "ERROR"
        /\ (pc = "done" /\ FailedUpTo(Len(csv_files)) > 0) =>
              /\ ret /= None
              /\ "create" \in DOMAIN ret
              /\ Cardinality({ k \in 1..Len(ret["create"].df) :
                                 ret["create"].df[k].Status = "ERROR" })
                    = FailedUpTo(Len(csv_files))

\* a failed create document with samples and element counts became an
\* ErrorRecord
C9_Witness ==
    /\ connector = "json" /\ Processed /\ LastFile.kind = "json"
    /\ LastFile.Status = "CompletedWithErrors"
    /\ LastFile.OperationType = "CreateExchange"
    /\ \E k \in 1..Len(LastFile.rows) : LastFile.rows[k].events > 0
    /\ LastFile.Exchanges /= << >>
    /\ IsZeroErrorRecord(result)

(***************************************************************************)
(* C10                                                                     *)
(***************************************************************************)
GenericErrorMessage == "Processing completed with errors (no details available)"

\* the first three of the entries' texts joined with "; "
JoinedFirstThree(text, n) ==
    CASE n = 0 -> GenericErrorMessage
      [] n = 1 -> text[1]
      [] n = 2 -> text[1] \o "; " \o text[2]
      [] OTHER -> text[1] \o "; " \o text[2] \o "; " \o text[3]

FailedProcessed ==
    /\ connector = "json" /\ Processed /\ LastFile.kind = "json"
    /\ LastFile.Status = "CompletedWithErrors"

(***************************************************************************)
(* C10 as stated: Error_Details is the Message values of the first 3       *)
(* entries of Errors, in order, joined with "; ", and the generic message  *)
(* when Errors is absent or empty.                                         *)
(***************************************************************************)
C10_MessagesVerbatim ==
    FailedProcessed =>
        LET errors == LastFile.Errors
        IN  result.Error_Details =
               JoinedFirstThree([k \in 1..Len(errors) |->
                                    Get(errors[k], "Message", "Unknown error")],
                                Len(errors))

(***************************************************************************)
(* C10 amended: Error_Details is the texts of the first 3 entries of       *)
(* Errors, in order, joined with "; " (later entries are dropped), where   *)
(* the text of an entry is "<MethodName>: <Message>" when the entry has a  *)
(* non-empty MethodName and its Message alone otherwise, "Unknown error"   *)
(* standing for a missing Message; when Errors is absent or empty it is    *)
(* the generic completed-with-errors message.                              *)
(***************************************************************************)
C10_MethodPrefixed ==
    FailedProcessed =>
        LET errors == LastFile.Errors
            msg(e) == IF "Message" \in DOMAIN e THEN e.Message ELSE "Unknown error"
            text(e) == IF "MethodName" \in DOMAIN e /\ e.MethodName /= ""
                       THEN e.MethodName \o ": " \o msg(e) ELSE msg(e)
        IN  result.Error_Details =
               JoinedFirstThree([k \in 1..Len(errors) |-> text(errors[k])], Len(errors))

\* a document with four errors, one naming a method, reported its first three
C10_Witness ==
    /\ FailedProcessed
    /\ Len(LastFile.Errors) = 4
    /\ \E k \in 1..3 : "MethodName" \in DOMAIN LastFile.Errors[k]
    /\ LastFile.Errors[4] /= LastFile.Errors[3]
    /\ result.Error_Details /= GenericErrorMessage

(***************************************************************************)
(* C11                                                                     *)
(***************************************************************************)
\* the JSON loop is about to handle document d
JsonHandles(d) ==
    /\ connector = "json" /\ pc = "loop" /\ i <= Len(csv_files)
    /\ csv_files[i] = d
    /\ i' = i + 1

OtherOperationType(d) ==
    d.kind = "json" /\ d.OperationType \notin {"CreateExchange", "LoadExchange"}

(***************************************************************************)
(* C11 as stated: a JSON document whose OperationType is neither           *)
(* "CreateExchange" nor "LoadExchange" adds no row to any table, neither a *)
(* summary row nor an ErrorRecord.                                         *)
(***************************************************************************)
C11_OtherTypeNoRow ==
    [][\A d \in { csv_files[k] : k \in 1..Len(csv_files) } :
          (JsonHandles(d) /\ OtherOperationType(d)) =>
              UNCHANGED <<results, read_results, error_results>>]_vars

(***************************************************************************)
(* C11 amended: a JSON document whose OperationType is neither             *)
(* "CreateExchange" nor "LoadExchange" and whose Status is not             *)
(* "CompletedWithErrors" adds no row to any table; when its Status is      *)
(* "CompletedWithErrors" it adds one ErrorRecord and no summary row, the   *)
(* status being tested before the operation type.                          *)
(***************************************************************************)
C11_OtherTypeNoRowUnlessFailed ==
    [][\A d \in { csv_files[k] : k \in 1..Len(csv_files) } :
          (JsonHandles(d) /\ OtherOperationType(d)) =>
              /\ UNCHANGED <<results, read_results>>
              /\ d.Status /= "CompletedWithErrors" => UNCHANGED error_results
              /\ d.Status = "CompletedWithErrors" =>
                    /\ Len(error_results') = Len(error_results) + 1
                    /\ error_results'[Len(error_results')].Status = "ERROR"]_vars

\* a completed LoadLatestExchange document with samples and element counts
\* was handled and gave nothing
C11_Witness ==
    /\ connector = "json" /\ Processed
    /\ LastFile.kind = "json" /\ LastFile.OperationType = "LoadLatestExchange"
    /\ LastFile.Status = "Completed"
    /\ \E k \in 1..Len(LastFile.rows) :
          /\ LastFile.rows[k].events > 0
          /\ find_matching_operation(LastFile.rows[k].op_name, JSON_READ_OPERATIONS) /= NoKey
    /\ result = None
    /\ results = << >> /\ read_results = << >> /\ error_results = << >>

(***************************************************************************)
(* C12: in a Tekla JSON batch every ErrorRecord appears exactly once in    *)
(* the returned 'create' table, after the successful create rows of the    *)
(* batch, and in no other table; this holds also when the batch has no     *)
(* successful create row or only load rows.                                *)
(***************************************************************************)
C12_ErrorsInCreateTable ==
    (connector = "json" /\ pc = "done" /\ FailedUpTo(Len(csv_files)) > 0) =>
        /\ Len(error_results) = FailedUpTo(Len(csv_files))
        /\ ret /= None
        /\ "create" \in DOMAIN ret
        /\ LET table == ret["create"].df
           IN  /\ Len(table) = Len(results) + Len(error_results)
               /\ \A k \in 1..Len(results) :
                     /\ table[k].Status = ""
                     /\ \A c \in DOMAIN results[k] : table[k][c] = results[k][c]
               /\ \A k \in 1..Len(error_results) :
                     /\ table[Len(results) + k].Status = "ERROR"
                     /\ table[Len(results) + k].Error_Details
                           = error_results[k].Error_Details
        /\ "load" \in DOMAIN ret =>
              /\ Len(ret["load"].df) = Len(read_results)
              /\ \A k \in 1..Len(ret["load"].df) :
                    Get(ret["load"].df[k], "Status", "") /= "ERROR"

\* a batch of a failed document and a successful load document returned
C12_Witness ==
    /\ connector = "json" /\ pc = "done"
    /\ error_results /= << >> /\ results = << >> /\ read_results /= << >>
    /\ ret /= None
    /\ "create" \in DOMAIN ret /\ "load" \in DOMAIN ret

(***************************************************************************)
(* C13                                                                     *)
(***************************************************************************)
BadFiles == { k \in 1..Len(csv_files) : csv_files[k].kind = "bad" }

\* the calls on the output callback that report a failure of file k
ErrorEvents(k) ==
    { n \in 1..Len(output_log) :
         /\ output_log[n].file = k
         /\ output_log[n].event \in {"Error checking", "Error processing"} }

(***************************************************************************)
(* C13: a Tekla or Rhino batch of N valid files of which exactly one fails *)
(* extraction and the others succeed returns exactly N-1 summary rows,     *)
(* reports exactly one error event for the failed file on the caller's     *)
(* callback, and is non-empty when N-1 >= 1.                               *)
(***************************************************************************)
C13_OneFailureOneEvent ==
    (connector \in {"rhino", "tekla"} /\ pc = "done" /\ output_callback
     /\ Cardinality(BadFiles) = 1
     /\ \A k \in 1..Len(csv_files) : csv_files[k].kind \in {"csv", "bad"}) =>
        LET N == Len(csv_files)
            failed == CHOOSE k \in BadFiles : TRUE
        IN  /\ Len(results) = N - 1
            /\ Cardinality(ErrorEvents(failed)) = 1
            /\ N - 1 >= 1 => (ret /= None /\ Len(ret.df) = N - 1)

(***************************************************************************)
(* C14: a batch processor run on an empty file list, or on a list in which *)
(* no file yields a row, returns the empty-result sentinel (None, or       *)
(* (None, None) for Navisworks) without raising; no returned table is ever *)
(* empty.                                                                  *)
(***************************************************************************)
IsTable(t) == t /= None /\ Len(t.df) > 0

C14_EmptySentinel ==
    /\ (pc \in {"loop", "done", "raised"}
        /\ results = << >> /\ read_results = << >> /\ error_results = << >>
        /\ i > Len(csv_files)) => pc /= "raised"
    /\ (pc = "done" /\ connector \in {"rhino", "tekla", "json"}) =>
          /\ (results = << >> /\ read_results = << >> /\ error_results = << >>)
                => ret = None
          /\ connector \in {"rhino", "tekla"} => (ret = None \/ IsTable(ret))
          /\ connector = "json" =>
                (ret = None \/ (DOMAIN ret /= {} /\ \A t \in DOMAIN ret : IsTable(ret[t])))
    /\ (pc = "done" /\ connector \notin {"rhino", "tekla", "json", "classify", "name"}) =>
          /\ results = << >> => ret.export_df = None
          /\ read_results = << >> => ret.read_df = None
          /\ ret.export_df = None \/ IsTable(ret.export_df)
          /\ ret.read_df = None \/ IsTable(ret.read_df)

\* a Navisworks batch of files that were read and gave no row returned
\* (None, None)
C14_Witness ==
    /\ connector = "navis" /\ pc = "done"
    /\ \E k \in 1..Len(csv_files) : csv_files[k].kind = "csv" /\ csv_files[k].rows /= << >>
    /\ ret = [export_df |-> None, read_df |-> None]

(***************************************************************************)
(* C15                                                                     *)
(***************************************************************************)
\* the rows a list of files gives, one file after the other: yield(f) is the
\* sequence of rows file f contributes
RECURSIVE Flatten(_)
Flatten(ss) == IF ss = << >> THEN << >> ELSE Head(ss) \o Flatten(Tail(ss))

RowsFrom(files, yield(_)) == Flatten([k \in 1..Len(files) |-> yield(files[k])])

Some(r) == IF r = None THEN << >> ELSE << r >>

\* what a batch processor returns for the files, written without callbacks
ResultOf(c, paths) ==
    LET files == ValidFiles(paths)
        any_create == \E k \in 1..Len(files) :
                         files[k].kind = "csv" /\ HasRow(files[k].rows, tekla_total_time_operation)
        any_read == \E k \in 1..Len(files) :
                       files[k].kind = "csv" /\ HasRow(files[k].rows, tekla_read_time_operation)
        rhino(f) == Some(rhino_process_single_file(f))
        tekla(f) == IF f.kind = "bad" THEN << >>
                    ELSE << WithModel(f, tekla_summary(f.rows, any_create, any_read)) >>
        export(f) == Some(navis_process_single_file(f).export_result)
        read(f) == Some(navis_process_single_file(f).read_result)
        typed(f, t) == LET r == json_process_single_file(f)
                       IN  IF r = None \/ Get(r, "Status", "") = "ERROR"
                              \/ Get(r, "Operation_Type", "") /= t
                           THEN << >> ELSE << WithoutType(r) >>
        create(f) == typed(f, "Create")
        load(f) == typed(f, "Load")
        error(f) == LET r == json_process_single_file(f)
                    IN  IF r /= None /\ Get(r, "Status", "") = "ERROR"
                        THEN << r >> ELSE << >>
        created == RowsFrom(files, create) \o RowsFrom(files, error)
        loaded == RowsFrom(files, load)
    IN  CASE c = "rhino" ->
               IF RowsFrom(files, rhino) = << >> THEN None
               ELSE DataFrame(RowsFrom(files, rhino))
          [] c = "tekla" ->
               IF RowsFrom(files, tekla) = << >> THEN None
               ELSE DataFrame(FillFrame(RowsFrom(files, tekla)))
          [] c = "navis" ->
               [export_df |-> IF RowsFrom(files, export) = << >> THEN None
                              ELSE DataFrame(RowsFrom(files, export)),
                read_df |-> IF RowsFrom(files, read) = << >> THEN None
                            ELSE DataFrame(RowsFrom(files, read))]
          [] c = "json" ->
               IF created = << >> /\ loaded = << >> THEN None
               ELSE (IF created = << >> THEN << >>
                     ELSE "create" :> DataFrame(FormatFrame(created)))
                    @@ (IF loaded = << >> THEN << >>
                        ELSE "load" :> DataFrame(FormatFrame(loaded)))

(***************************************************************************)
(* C15: the value a batch processor returns is determined by the files     *)
(* alone: it is the same whether the output callback and the status        *)
(* callback are supplied or omitted.                                       *)
(***************************************************************************)
C15_CallbacksOnlyObserve ==
    (pc = "done" /\ connector \in {"rhino", "tekla", "navis", "json"}) =>
        ret = ResultOf(connector, file_paths)

\* a batch that gave rows returned its table to a caller that supplied no
\* callback and was told nothing
C15_Witness ==
    /\ pc = "done" /\ connector = "rhino"
    /\ ~output_callback /\ ~status_callback
    /\ output_log = << >> /\ status_log = << >>
    /\ ret /= None
    /\ \E k \in 1..Len(ret.df) : ret.df[k].total_elements > 0

(***************************************************************************)
(* C16: the batch as a whole always completes: whatever the content or     *)
(* readability of each file, the batch processor visits each valid file    *)
(* and returns a result (possibly the empty sentinel); no failure caused   *)
(* by a file leaves the batch processor.                                   *)
(***************************************************************************)
C16_BatchCompletes ==
    /\ pc /= "raised"
    /\ pc = "done" =>
          /\ ret /= Unset
          /\ csv_files = ValidFiles(file_paths)
          /\ i = Len(csv_files) + 1

(***************************************************************************)
(* C17                                                                     *)
(***************************************************************************)
\* the <name> of a file name of the form metrics_<name>_Demo*, << >> and
\* FALSE when the file name has another form
PatternMatches(name) ==
    /\ name /= << >> /\ name[1] = "metrics_"
    /\ \E k \in 2..Len(name) : name[k] = "_Demo"

PatternName(name) ==
    LET first == CHOOSE k \in 2..Len(name) :
                    name[k] = "_Demo" /\ \A n \in 2..(k - 1) : name[n] /= "_Demo"
    IN  SubSeq(name, 2, first - 1)

\* a document all of whose values have the expected types
WellFormed(data) ==
    /\ data.t = "dict"
    /\ "Context" \in DOMAIN data.v => data.v["Context"].t = "dict"
    /\ ("Context" \in DOMAIN data.v /\ "Exchanges" \in DOMAIN data.v["Context"].v) =>
          LET xs == data.v["Context"].v["Exchanges"]
          IN  /\ xs.t = "list"
              /\ \A k \in 1..Len(xs.v) :
                    /\ xs.v[k].t = "dict"
                    /\ "ExchangeInfo" \in DOMAIN xs.v[k].v =>
                          /\ xs.v[k].v["ExchangeInfo"].t = "dict"
                          /\ "ExchangeName" \in DOMAIN xs.v[k].v["ExchangeInfo"].v =>
                                xs.v[k].v["ExchangeInfo"].v["ExchangeName"].t
                                   \in {"str", "null"}

\* the ExchangeName values a well-formed document embeds, in order, the
\* empty ones left out
EmbeddedNames(data) ==
    IF "Context" \notin DOMAIN data.v \/ "Exchanges" \notin DOMAIN data.v["Context"].v
    THEN << >>
    ELSE LET xs == data.v["Context"].v["Exchanges"].v
             nameOf(x) ==
                 IF "ExchangeInfo" \in DOMAIN x.v
                    /\ "ExchangeName" \in DOMAIN x.v["ExchangeInfo"].v
                 THEN x.v["ExchangeInfo"].v["ExchangeName"] ELSE JNull
         IN  SelectSeq([k \in 1..Len(xs) |-> nameOf(xs[k])],
                       LAMBDA n : n.t = "str" /\ n.v /= << >>)

NameExtracted == connector = "name_json" /\ pc = "done" /\ WellFormed(json_data)

(***************************************************************************)
(* C17 as stated: for a JSON file the model name is the <name> of the file *)
(* name pattern metrics_<name>_Demo* when the file name matches it, even   *)
(* if the document embeds an ExchangeName; otherwise the embedded          *)
(* ExchangeName; otherwise the file name stem.                             *)
(***************************************************************************)
C17_PatternFirst ==
    NameExtracted =>
        model_name =
            IF PatternMatches(file_name) THEN JStr(PatternName(file_name))
            ELSE IF EmbeddedNames(json_data) /= << >> THEN EmbeddedNames(json_data)[1]
            ELSE JStr(splitext0(file_name))

(***************************************************************************)
(* C17 amended: for a JSON file the model name is the first non-empty      *)
(* ExchangeName embedded in the document (Context.Exchanges[].ExchangeInfo)*)
(* whatever the file name; only when the document embeds none is it the    *)
(* file name without its extension.  The pattern metrics_<name>_Demo* is   *)
(* not applied to JSON file names.                                         *)
(***************************************************************************)
C17_EmbeddedNameFirst ==
    NameExtracted =>
        model_name =
            IF EmbeddedNames(json_data) /= << >> THEN EmbeddedNames(json_data)[1]
            ELSE JStr(splitext0(file_name))

\* metrics_A_Demo.json with an embedded ExchangeName "B" was named "B"
C17_Witness ==
    /\ NameExtracted
    /\ file_name = <<"metrics_", "A", "_Demo", ".json">>
    /\ EmbeddedNames(json_data) /= << >>
    /\ model_name = JStr(<<"B">>)

(***************************************************************************)
(* C18: model-name extraction is total: for every file name and every      *)
(* document shape it returns a string; for a tabular file it returns the   *)
(* text between the leading "metrics_" and the first following "_Demo"     *)
(* when the file name has the form metrics_<name>_Demo*.csv and the file   *)
(* name unchanged otherwise.                                               *)
(***************************************************************************)
C18_NameIsTotal ==
    (connector \in {"name_csv", "name_json"} /\ pc = "done") =>
        /\ model_name /= Unset
        /\ model_name.t = "str"
        /\ connector = "name_csv" =>
              model_name.v =
                  IF PatternMatches(file_name)
                     /\ \E k \in 1..Len(file_name) :
                           /\ file_name[k] = ".csv"
                           /\ \E n \in 2..(k - 1) : file_name[n] = "_Demo"
                  THEN PatternName(file_name)
                  ELSE file_name

(***************************************************************************)
(* C19                                                                     *)
(***************************************************************************)
\* the loop has just summarised a readable tabular file
TabularProcessed ==
    /\ connector \in {"rhino", "tekla", "navis", "navis_root"}
    /\ Processed /\ LastFile.kind = "csv" /\ result /= Unset

\* elapsed time of the rows whose name contains part
ContainingMillis(rows, part) ==
    SumOver({ k \in 1..Len(rows) : Contains(part, rows[k].op_name) },
            [k \in 1..Len(rows) |-> rows[k].ms])

\* Rhino: the summary is built from the phase of the exactly named rows
RhinoExactOnly ==
    (connector = "rhino" /\ TabularProcessed) =>
        LET rows == LastFile.rows
        IN  /\ result.milliseconds =
                  IF HasRow(rows, RHINO_CREATE_TIME_OPERATION)
                  THEN NamedMillis(rows, RHINO_CREATE_TIME_OPERATION)
                  ELSE NamedMillis(rows, RHINO_READ_TIME_OPERATION)
            /\ (~HasRow(rows, RHINO_CREATE_TIME_OPERATION)
                /\ ~HasRow(rows, RHINO_READ_TIME_OPERATION)) => result.total_elements = 0

\* Tekla: the flags of the first pass and the file's time come from the
\* exactly named rows
TeklaExactOnly ==
    (connector = "tekla" /\ TabularProcessed) =>
        LET rows == LastFile.rows
            named(op) == \E k \in 1..Len(csv_files) :
                            csv_files[k].kind = "csv" /\ HasRow(csv_files[k].rows, op)
        IN  /\ has_any_create_data = named(tekla_total_time_operation)
            /\ has_any_read_data = named(tekla_read_time_operation)
            /\ result.milliseconds =
                  IF has_any_create_data
                  THEN NamedMillis(rows, tekla_total_time_operation)
                  ELSE NamedMillis(rows, tekla_read_time_operation)

\* Navisworks: the time of each table's row comes from the rows named
\* exactly create_op and read_op
NavisExactOnly(c, create_op, read_op) ==
    (connector = c /\ TabularProcessed) =>
        LET rows == LastFile.rows
        IN  /\ result.export_result /= None =>
                  result.export_result.milliseconds = NamedMillis(rows, create_op)
            /\ result.read_result /= None =>
                  result.read_result.milliseconds = NamedMillis(rows, read_op)

(***************************************************************************)
(* C19 as stated: in the tabular sources of every connector a row is a     *)
(* timing row only if its operation name equals the phase's canonical      *)
(* total-time identifier: a row whose name merely contains the identifier  *)
(* never sets the phase signal and never adds to elapsedMillis.            *)
(***************************************************************************)
C19_ExactEverywhere ==
    /\ RhinoExactOnly
    /\ TeklaExactOnly
    /\ NavisExactOnly("navis", NAVIS_CREATE_TIME_OPERATION, NAVIS_READ_TIME_OPERATION)
    /\ NavisExactOnly("navis_root", NAVIS_ROOT_CREATE_TIME_OPERATION,
                      NAVIS_ROOT_READ_TIME_OPERATION)

(***************************************************************************)
(* C19 amended: in the Rhino, Tekla and Data Extractor Navisworks          *)
(* processors a row is a timing row only if its operation name equals the  *)
(* canonical total-time identifier.  The Navisworks processor at the top   *)
(* of the repository does the same while the file has a row named exactly  *)
(* so; when it has none, every row whose name contains                     *)
(* "TotalTimeToCreateExchange" (export) or "TotalExchangeReadTime" (read)  *)
(* is a timing row of that phase and adds to its elapsedMillis.            *)
(***************************************************************************)
C19_ExactExceptRootNavisworks ==
    /\ RhinoExactOnly
    /\ TeklaExactOnly
    /\ NavisExactOnly("navis", NAVIS_CREATE_TIME_OPERATION, NAVIS_READ_TIME_OPERATION)
    /\ (connector = "navis_root" /\ TabularProcessed) =>
          LET rows == LastFile.rows
          IN  /\ result.export_result /= None =>
                    result.export_result.milliseconds =
                        IF HasRow(rows, NAVIS_ROOT_CREATE_TIME_OPERATION)
                        THEN NamedMillis(rows, NAVIS_ROOT_CREATE_TIME_OPERATION)
                        ELSE ContainingMillis(rows, NAVIS_ROOT_CREATE_PARTIAL)
              /\ result.read_result /= None =>
                    result.read_result.milliseconds =
                        IF HasRow(rows, NAVIS_ROOT_READ_TIME_OPERATION)
                        THEN NamedMillis(rows, NAVIS_ROOT_READ_TIME_OPERATION)
                        ELSE ContainingMillis(rows, NAVIS_ROOT_READ_PARTIAL)

\* the top-level Navisworks processor took the time of an export row from a
\* row that only contains the identifier
C19_Witness ==
    /\ connector = "navis_root" /\ TabularProcessed
    /\ ~HasRow(LastFile.rows, NAVIS_ROOT_CREATE_TIME_OPERATION)
    /\ result.export_result /= None
    /\ result.export_result.milliseconds > 0

(***************************************************************************)
(* C20                                                                     *)
(***************************************************************************)
\* the canonical total-time identifier of the active phase of the file the
\* loop has just summarised, NoKey when no phase is active
ActiveTimeOperation ==
    CASE connector = "rhino" ->
            IF HasRow(LastFile.rows, RHINO_CREATE_TIME_OPERATION)
            THEN RHINO_CREATE_TIME_OPERATION
            ELSE IF HasRow(LastFile.rows, RHINO_READ_TIME_OPERATION)
            THEN RHINO_READ_TIME_OPERATION ELSE NoKey
      [] connector = "tekla" ->
            IF show_create_data THEN tekla_total_time_operation
            ELSE IF show_read_data THEN tekla_read_time_operation ELSE NoKey
      [] connector = "json" ->
            IF json_operation_type(LastFile.OperationType) = "Create"
            THEN JSON_CREATE_TIME_OPERATION ELSE JSON_READ_TIME_OPERATION

\* the loop has just summarised a readable file into one row with a phase
OneRowSummarised ==
    /\ connector \in {"rhino", "tekla", "json"}
    /\ Processed /\ result /= Unset /\ result /= None
    /\ LastFile.kind \in {"csv", "json"}
    /\ connector = "json" =>
          /\ ~json_is_failed(LastFile)
          /\ LastFile.rows /= << >>

\* the timing rows of a phase of the Navisworks processors
NavisTimingMillis(rows, op, part) ==
    IF connector = "navis_root" /\ ~HasRow(rows, op)
    THEN ContainingMillis(rows, part)
    ELSE NamedMillis(rows, op)

(***************************************************************************)
(* C20: for every file, elapsedMillis is the sum of the elapsed-time       *)
(* values of all timing rows of the file's active phase (every such row,   *)
(* not only the first), and the timing rows of the other phase add nothing *)
(* to it.  In the Navisworks processors each of the two tables has its own *)
(* phase.                                                                  *)
(***************************************************************************)
C20_SumOfActivePhase ==
    /\ OneRowSummarised =>
          result.milliseconds =
              IF ActiveTimeOperation = NoKey THEN 0
              ELSE NamedMillis(LastFile.rows, ActiveTimeOperation)
    /\ (connector \in {"navis", "navis_root"} /\ TabularProcessed) =>
          /\ result.export_result /= None =>
                result.export_result.milliseconds =
                    NavisTimingMillis(LastFile.rows, NAVIS_CREATE_TIME_OPERATION,
                                      NAVIS_ROOT_CREATE_PARTIAL)
          /\ result.read_result /= None =>
                result.read_result.milliseconds =
                    NavisTimingMillis(LastFile.rows,
                                      IF connector = "navis"
                                      THEN NAVIS_READ_TIME_OPERATION
                                      ELSE NAVIS_ROOT_READ_TIME_OPERATION,
                                      NAVIS_ROOT_READ_PARTIAL)

\* a file with two timing rows of the active phase and one of the other
\* phase was given the sum of the two
C20_Witness ==
    /\ OneRowSummarised
    /\ ActiveTimeOperation /= NoKey
    /\ Len(RowsNamed(LastFile.rows, ActiveTimeOperation)) = 2
    /\ \E k \in 1..Len(LastFile.rows) :
          /\ LastFile.rows[k].op_name /= ActiveTimeOperation
          /\ LastFile.rows[k].ms > 0
    /\ result.milliseconds =
          RowsNamed(LastFile.rows, ActiveTimeOperation)[1].ms
          + RowsNamed(LastFile.rows, ActiveTimeOperation)[2].ms
    /\ RowsNamed(LastFile.rows, ActiveTimeOperation)[2].ms > 0

(***************************************************************************)
(* C21                                                                     *)
(***************************************************************************)
\* the file the loop has just summarised has no total-time row of either
\* phase, under the connector's own notion of a total-time row
NoTimingRows ==
    LET rows == LastFile.rows
    IN  CASE connector = "rhino" ->
                /\ ~HasRow(rows, RHINO_CREATE_TIME_OPERATION)
                /\ ~HasRow(rows, RHINO_READ_TIME_OPERATION)
          [] connector = "tekla" ->
                /\ ~HasRow(rows, tekla_total_time_operation)
                /\ ~HasRow(rows, tekla_read_time_operation)
          [] connector = "navis" ->
                /\ ~HasRow(rows, NAVIS_CREATE_TIME_OPERATION)
                /\ ~HasRow(rows, NAVIS_READ_TIME_OPERATION)
          [] connector = "navis_root" ->
                \A k \in 1..Len(rows) :
                    /\ ~Contains(NAVIS_ROOT_CREATE_PARTIAL, rows[k].op_name)
                    /\ ~Contains(NAVIS_ROOT_READ_PARTIAL, rows[k].op_name)

ZeroTiming(row) ==
    row.milliseconds = 0 /\ row.minutes = 0 /\ row.element_per_min = 0

\* Rhino and Tekla: the file's row is appended to the batch's rows and its
\* timing fields are zero
OneRowZeroTiming ==
    (connector \in {"rhino", "tekla"} /\ TabularProcessed /\ NoTimingRows) =>
        /\ result /= None
        /\ results /= << >> /\ results[Len(results)] = result
        /\ ZeroTiming(result)

\* some category of the table names counts an event of the file
SomeCount(rows, map, names) ==
    \E k \in 1..3 : CountInto(rows, map, names[k]) > 0

(***************************************************************************)
(* C21 as stated: a tabular file with neither a create nor a read          *)
(* total-time row still produces a summary row, for every tabular          *)
(* connector, and that row has elapsedMillis, elapsedMinutes and           *)
(* elementsPerMinute equal to 0.                                           *)
(***************************************************************************)
C21_RowWithZeroTiming ==
    /\ OneRowZeroTiming
    /\ (connector \in {"navis", "navis_root"} /\ TabularProcessed /\ NoTimingRows) =>
          /\ result.export_result /= None \/ result.read_result /= None
          /\ result.export_result /= None => ZeroTiming(result.export_result)
          /\ result.read_result /= None => ZeroTiming(result.read_result)

(***************************************************************************)
(* C21 amended: a Rhino or Tekla file with neither total-time row still    *)
(* produces its summary row, with elapsedMillis, elapsedMinutes and        *)
(* elementsPerMinute equal to 0.  A Navisworks file with neither           *)
(* total-time row produces an export row only if some export count is      *)
(* positive and a read row only if some read count is positive, each with  *)
(* the three timing fields equal to 0; with no positive count it produces  *)
(* no row at all, and no error is reported.                                *)
(***************************************************************************)
C21_ZeroTimingWhereEmitted ==
    /\ OneRowZeroTiming
    /\ (connector \in {"navis", "navis_root"} /\ TabularProcessed /\ NoTimingRows) =>
          /\ result.export_result /= None
                <=> SomeCount(LastFile.rows, NAVIS_CREATE_OPERATIONS, NavisExportNames)
          /\ result.read_result /= None
                <=> SomeCount(LastFile.rows, NAVIS_READ_OPERATIONS, NavisReadNames)
          /\ result.export_result /= None => ZeroTiming(result.export_result)
          /\ result.read_result /= None => ZeroTiming(result.read_result)

\* a Navisworks file without total-time rows and without a positive count
\* was processed and produced no row
C21_Witness ==
    /\ connector = "navis" /\ TabularProcessed /\ NoTimingRows
    /\ LastFile.rows /= << >>
    /\ result.export_result = None /\ result.read_result = None

(***************************************************************************)
(* C22                                                                     *)
(***************************************************************************)
\* no two rows of the table bear the same model name
DistinctModels(table) ==
    table /= None =>
        \A j, k \in 1..Len(table.df) :
            j /= k => table.df[j].Data_Model /= table.df[k].Data_Model

(***************************************************************************)
(* C22: every output table holds at most one row per (model name, phase):  *)
(* files of a batch that resolve to the same model name and phase are      *)
(* grouped into a single row.  A Rhino or Tekla table holds the rows of    *)
(* one phase, and each Navisworks table those of its own phase.            *)
(***************************************************************************)
C22_OneRowPerModel ==
    pc = "done" =>
        /\ connector \in {"rhino", "tekla"} => DistinctModels(ret)
        /\ connector = "navis" =>
              DistinctModels(ret.export_df) /\ DistinctModels(ret.read_df)

(***************************************************************************)
(* C23                                                                     *)
(***************************************************************************)
\* the category tables under which file f is classified: the table of the
\* file's phase (Rhino), of the batch's phase (Tekla), both tables
\* (Navisworks); no table for a Rhino file without a phase
ActiveMaps(f) ==
    CASE connector = "rhino" ->
            IF rhino_phase(f.rows) = "create" THEN {RHINO_CREATE_OPERATIONS}
            ELSE IF rhino_phase(f.rows) = "read" THEN {RHINO_READ_OPERATIONS}
            ELSE {}
      [] connector = "tekla" ->
            IF show_read_data THEN {tekla_read_operation_map}
            ELSE {tekla_create_operation_map}
      [] connector \in {"navis", "navis_root"} ->
            {NAVIS_CREATE_OPERATIONS, NAVIS_READ_OPERATIONS}

Unmatched(row, f) ==
    \A map \in ActiveMaps(f) : find_matching_operation(row.op_name, map) = NoKey

\* row is a total-time row of some phase under the connector's own notion
IsTimingRow(row) ==
    CASE connector = "rhino" ->
            row.op_name \in {RHINO_CREATE_TIME_OPERATION, RHINO_READ_TIME_OPERATION}
      [] connector = "tekla" ->
            row.op_name \in {tekla_total_time_operation, tekla_read_time_operation}
      [] connector = "navis" ->
            row.op_name \in {NAVIS_CREATE_TIME_OPERATION, NAVIS_READ_TIME_OPERATION}
      [] connector = "navis_root" ->
            \/ Contains(NAVIS_ROOT_CREATE_PARTIAL, row.op_name)
            \/ Contains(NAVIS_ROOT_READ_PARTIAL, row.op_name)

\* the rows of a file without those at the positions in S
RECURSIVE WithoutRows(_, _, _)
WithoutRows(rows, S, k) ==
    IF k > Len(rows) THEN << >>
    ELSE (IF k \in S THEN << >> ELSE << rows[k] >>) \o WithoutRows(rows, S, k + 1)

\* what the batch's loop makes of file f in the current batch
Summarise(f) ==
    CASE connector = "rhino" -> rhino_process_single_file(f)
      [] connector = "tekla" ->
            WithModel(f, tekla_summary(f.rows, has_any_create_data, has_any_read_data))
      [] connector = "navis" -> navis_process_single_file(f)
      [] connector = "navis_root" -> navis_root_process_single_file(f)

\* removing any of the rows at the positions in S leaves the file's
\* summary as it is
RemovalChangesNothing(S) ==
    \A T \in SUBSET S :
        Summarise([LastFile EXCEPT !.rows = WithoutRows(LastFile.rows, T, 1)]) = result

(***************************************************************************)
(* C23 as stated: rows whose operation id matches no pattern of the active *)
(* category table are ignored: adding or removing any number of them       *)
(* leaves every category count, totalElements and the emitted row          *)
(* unchanged, and raises no error.                                         *)
(***************************************************************************)
C23_UnmatchedIgnored ==
    TabularProcessed =>
        RemovalChangesNothing({ k \in 1..Len(LastFile.rows) :
                                   Unmatched(LastFile.rows[k], LastFile) })

(***************************************************************************)
(* C23 amended: rows whose operation id matches no pattern of the active   *)
(* category table and that are not total-time rows are ignored: adding or  *)
(* removing any number of them leaves every category count, totalElements  *)
(* and the emitted row unchanged, and raises no error.  A total-time row   *)
(* matches no pattern either, but it sets the timing fields and, in Rhino, *)
(* the phase and with it the counts.                                       *)
(***************************************************************************)
C23_UnmatchedUntimedIgnored ==
    TabularProcessed =>
        RemovalChangesNothing({ k \in 1..Len(LastFile.rows) :
                                   /\ Unmatched(LastFile.rows[k], LastFile)
                                   /\ ~IsTimingRow(LastFile.rows[k]) })

\* a file with a counted row and an unmatched row that is no total-time
\* row was summarised
C23_Witness ==
    /\ connector \in {"rhino", "tekla"} /\ TabularProcessed
    /\ result /= None /\ result.total_elements > 0
    /\ \E k \in 1..Len(LastFile.rows) :
          /\ Unmatched(LastFile.rows[k], LastFile)
          /\ ~IsTimingRow(LastFile.rows[k])
          /\ LastFile.rows[k].events > 0

(***************************************************************************)
(* C24                                                                     *)
(***************************************************************************)
\* the reading of file k has failed in a pass that is over
HasFailed(k) ==
    \/ pc \in {"loop", "done"} /\ csv_files[k].kind \in {"bad", "transient"}
    \/ pc = "pass1" /\ k < i /\ csv_files[k].kind \in {"bad", "transient"}

\* this step reads file i of the filtered list
ReadsFile == connector = "tekla" /\ pc \in {"pass1", "loop"} /\ i' = i + 1

\* files up to n whose reading never failed
NeverFailedUpTo(n) ==
    { k \in 1..n : csv_files[k].kind \notin {"bad", "transient"} }

(***************************************************************************)
(* C24: there are no retries: once reading or processing a file has        *)
(* failed, the file is never read or processed again in the run and        *)
(* contributes nothing to the result, neither a row nor the phase          *)
(* decision; every file ends as Summarized or as Errored, not both.        *)
(***************************************************************************)
C24_FailedIsFinal ==
    /\ [][ReadsFile => ~HasFailed(i)]_vars
    /\ [](connector = "tekla" /\ pc \in {"loop", "done"} =>
            /\ Len(results) = Cardinality(NeverFailedUpTo(i - 1))
            /\ has_any_create_data =
                  \E k \in NeverFailedUpTo(Len(csv_files)) :
                      HasRow(csv_files[k].rows, tekla_total_time_operation)
            /\ has_any_read_data =
                  \E k \in NeverFailedUpTo(Len(csv_files)) :
                      HasRow(csv_files[k].rows, tekla_read_time_operation))

(***************************************************************************)
(* C25                                                                     *)
(***************************************************************************)
\* the positions of the output log that hold an event about a file
FileEvents == { n \in 1..Len(output_log) : output_log[n].file /= 0 }

\* the events about files follow the order of the files
EventsInOrder ==
    \A m, n \in FileEvents : m < n => output_log[m].file <= output_log[n].file

\* the loop that appends the rows is through with file k
Complete(k) == pc \in {"done", "raised"} \/ (pc = "loop" /\ k < i)

\* an event about a file is emitted only when the file before it is
\* complete, its row included
NothingAhead ==
    \A n \in FileEvents : output_log[n].file > 1 => Complete(output_log[n].file - 1)

\* the row a document adds to the 'create' table: its create row or its
\* error record
JsonCreateTableRow(f) ==
    LET r == json_process_single_file(f)
    IN  IF r = None THEN << >>
        ELSE IF Get(r, "Status", "") = "ERROR" THEN << r >>
        ELSE IF Get(r, "Operation_Type", "") = "Create" THEN << WithoutType(r) >>
        ELSE << >>

\* the rows of the tabular processors' tables follow the order of the files
TabularRowsInOrder ==
    (pc = "done" /\ connector \in {"rhino", "tekla", "navis"}) =>
        ret = ResultOf(connector, file_paths)

(***************************************************************************)
(* C25 as stated: files are processed strictly one at a time in input      *)
(* order: the per-file events are emitted in the order of the input list,  *)
(* file i is complete, its row appended, before any event or row of file   *)
(* i+1, and the rows of every output table are in the relative order of    *)
(* their files.                                                            *)
(***************************************************************************)
C25_StrictlyInOrder ==
    /\ EventsInOrder
    /\ NothingAhead
    /\ TabularRowsInOrder
    /\ (pc = "done" /\ connector = "json" /\ ret /= None /\ "create" \in DOMAIN ret) =>
          ret["create"] = DataFrame(FormatFrame(RowsFrom(csv_files, JsonCreateTableRow)))

(***************************************************************************)
(* C25 amended: the Rhino and Navisworks processors handle the files       *)
(* strictly one at a time in input order: their per-file events follow the *)
(* input order and file i is complete before any event or row of file i+1. *)
(* The Tekla CSV processor makes two passes in input order: the error      *)
(* events of its first pass, for all files, precede every row and every    *)
(* event of the second pass.  The rows of the tabular tables and of the    *)
(* JSON 'load' table are in the order of their files; the JSON 'create'    *)
(* table holds the create rows in input order followed by the error        *)
(* records in input order.                                                 *)
(***************************************************************************)
C25_InOrderWithinPass ==
    /\ connector \in {"rhino", "navis"} => EventsInOrder /\ NothingAhead
    /\ connector = "tekla" =>
          \A m, n \in FileEvents :
              m < n =>
                 /\ output_log[m].event = output_log[n].event =>
                       output_log[m].file < output_log[n].file
                 /\ output_log[m].event /= output_log[n].event =>
                       /\ output_log[m].event = "Error checking"
                       /\ output_log[n].event = "Error processing"
    /\ TabularRowsInOrder
    /\ (pc = "done" /\ connector = "json") => ret = ResultOf("json", file_paths)

\* a Tekla batch of two unreadable files and a readable one returned its
\* table after reporting the second file before completing the first
C25_Witness ==
    /\ connector = "tekla" /\ pc = "done" /\ ret /= None
    /\ Len(csv_files) = 3
    /\ csv_files[1].kind = "bad" /\ csv_files[2].kind = "bad"
    /\ \E m, n \in FileEvents :
          m < n /\ output_log[m].file = 2 /\ output_log[n].file = 1

(***************************************************************************)
(* C26                                                                     *)
(***************************************************************************)
\* the row of a successful summary of the given type, from the document
SuccessRow(f, type) ==
    LET r == json_process_single_file(f)
    IN  IF r /= None /\ Get(r, "Status", "") /= "ERROR"
           /\ Get(r, "Operation_Type", "") = type
        THEN << WithoutType(r) >> ELSE << >>

JsonSuccessfulCreate(f) == SuccessRow(f, "Create")

JsonErrorRecord(f) ==
    LET r == json_process_single_file(f)
    IN  IF r /= None /\ Get(r, "Status", "") = "ERROR" THEN << r >> ELSE << >>

\* the load row of a document whose OperationType is exactly "LoadExchange"
JsonLoadExchangeRow(f) ==
    IF f.kind = "json" /\ f.OperationType = "LoadExchange"
    THEN SuccessRow(f, "Load") ELSE << >>

(***************************************************************************)
(* C26: in the Tekla JSON batch the 'create' table lists the successful    *)
(* create rows in input order and after them the ErrorRecords in input     *)
(* order, so that no ErrorRecord precedes a successful create row even     *)
(* when its file came earlier; the 'load' table holds only rows of         *)
(* documents whose OperationType is exactly "LoadExchange".                *)
(***************************************************************************)
C26_CreateRowsThenErrors ==
    (connector = "json" /\ pc = "done" /\ ret /= None) =>
        /\ "create" \in DOMAIN ret =>
              /\ ret["create"] =
                    DataFrame(FormatFrame(RowsFrom(csv_files, JsonSuccessfulCreate)
                                          \o RowsFrom(csv_files, JsonErrorRecord)))
              /\ \A j, k \in 1..Len(ret["create"].df) :
                    (j < k /\ Get(ret["create"].df[j], "Status", "") = "ERROR") =>
                        Get(ret["create"].df[k], "Status", "") = "ERROR"
        /\ "load" \in DOMAIN ret =>
              ret["load"] = DataFrame(FormatFrame(RowsFrom(csv_files, JsonLoadExchangeRow)))

\* a failed document followed by a successful create document: the table
\* lists the create row first
C26_Witness ==
    /\ connector = "json" /\ pc = "done" /\ ret /= None
    /\ Len(csv_files) = 2
    /\ csv_files[1].kind = "json" /\ json_is_failed(csv_files[1])
    /\ JsonSuccessfulCreate(csv_files[2]) /= << >>
    /\ "create" \in DOMAIN ret /\ Len(ret["create"].df) = 2
    /\ ret["create"].df[1].Status /= "ERROR"
    /\ ret["create"].df[2].Status = "ERROR"

\* a batch of a measured "LoadLatestExchange" document and a measured
\* "LoadExchange" document returned a 'load' table of one row
C26_LoadWitness ==
    /\ connector = "json" /\ pc = "done" /\ ret /= None
    /\ Len(csv_files) = 2
    /\ csv_files[1].kind = "json" /\ csv_files[1].OperationType = "LoadLatestExchange"
    /\ ~json_is_failed(csv_files[1]) /\ csv_files[1].rows /= << >>
    /\ JsonLoadExchangeRow(csv_files[2]) /= << >>
    /\ "load" \in DOMAIN ret /\ Len(ret["load"].df) = 1

(***************************************************************************)
(* C27                                                                     *)
(***************************************************************************)
\* a readable document without the failure status and without metrics
Unmeasured(d) == d.kind = "json" /\ ~json_is_failed(d) /\ d.rows = << >>

\* the documents up to n that are readable and not unmeasured
MeasuredOrFailedUpTo(n) ==
    { k \in 1..n : csv_files[k].kind = "json" /\ ~Unmeasured(csv_files[k]) }

(***************************************************************************)
(* C27: in the Tekla JSON batch a document without the failure status      *)
(* whose PerformanceMetrics is missing or empty adds no row to any table,  *)
(* whatever its OperationType and its authoritative ElementCounts; a batch *)
(* of such documents only returns the empty-result sentinel.               *)
(***************************************************************************)
C27_UnmeasuredAddsNoRow ==
    (connector = "json" /\ pc \in {"loop", "done"}) =>
        /\ Len(results) + Len(read_results) + Len(error_results)
              <= Cardinality(MeasuredOrFailedUpTo(i - 1))
        /\ (pc = "done" /\ csv_files /= << >>
            /\ \A k \in 1..Len(csv_files) : Unmeasured(csv_files[k])) => ret = None

\* a batch of a "CreateExchange" document with authoritative ElementCounts
\* and no metrics returned the sentinel
C27_Witness ==
    /\ connector = "json" /\ pc = "done"
    /\ csv_files /= << >>
    /\ \A k \in 1..Len(csv_files) : Unmeasured(csv_files[k])
    /\ csv_files[1].OperationType = "CreateExchange"
    /\ csv_files[1].Exchanges /= << >>
    /\ ret = None

(***************************************************************************)
(* C28                                                                     *)
(***************************************************************************)
\* the rows of the file that are no total-time rows
UntimedRows(rows) ==
    SelectSeq(rows, LAMBDA r : r.op_name \notin {NAVIS_CREATE_TIME_OPERATION,
                                                 NAVIS_READ_TIME_OPERATION})

\* an operation id that contains an export pattern and a read pattern
InBothTables(row) ==
    /\ find_matching_operation(row.op_name, NAVIS_CREATE_OPERATIONS) /= NoKey
    /\ find_matching_operation(row.op_name, NAVIS_READ_OPERATIONS) /= NoKey

(***************************************************************************)
(* C28: in the Navisworks processor a file adds a row to the export table  *)
(* exactly when one of its export counts is positive and a row to the read *)
(* table exactly when one of its read counts is positive; total-time rows  *)
(* never decide whether a row is emitted, only whether its timing fields   *)
(* are non-zero; an operation id that contains an export pattern and a     *)
(* read pattern is counted in both rows.                                   *)
(***************************************************************************)
C28_RowsByCountsOnly ==
    (connector = "navis" /\ TabularProcessed) =>
        LET rows == LastFile.rows
            untimed == navis_process_single_file([LastFile EXCEPT !.rows = UntimedRows(rows)])
        IN  /\ result.export_result /= None
                  <=> \E n \in {"Mesh_Export", "Line_Export", "Point_Export"} :
                         CategoryEvents(rows, NAVIS_CREATE_OPERATIONS, n) > 0
            /\ result.read_result /= None
                  <=> \E n \in {"Brep_Read", "Mesh_Read", "Primitive_Read"} :
                         CategoryEvents(rows, NAVIS_READ_OPERATIONS, n) > 0
            /\ (result.export_result = None) <=> (untimed.export_result = None)
            /\ (result.read_result = None) <=> (untimed.read_result = None)
            /\ (result.export_result /= None /\ result.export_result.milliseconds > 0) =>
                  HasRow(rows, NAVIS_CREATE_TIME_OPERATION)
            /\ (result.read_result /= None /\ result.read_result.milliseconds > 0) =>
                  HasRow(rows, NAVIS_READ_TIME_OPERATION)
            /\ result.export_result /= None =>
                  \A n \in {"Mesh_Export", "Line_Export", "Point_Export"} :
                      result.export_result[n] = CategoryEvents(rows, NAVIS_CREATE_OPERATIONS, n)
            /\ result.read_result /= None =>
                  \A n \in {"Brep_Read", "Mesh_Read", "Primitive_Read"} :
                      result.read_result[n] = CategoryEvents(rows, NAVIS_READ_OPERATIONS, n)

\* a file without total-time rows whose only row bears an id of both tables
\* gave an export row and a read row
C28_Witness ==
    /\ connector = "navis" /\ TabularProcessed
    /\ Len(LastFile.rows) = 1
    /\ InBothTables(LastFile.rows[1]) /\ LastFile.rows[1].events > 0
    /\ result.export_result /= None /\ result.read_result /= None
    /\ result.export_result.total_elements = LastFile.rows[1].events
    /\ result.read_result.total_elements = LastFile.rows[1].events

(***************************************************************************)
(* C29                                                                     *)
(***************************************************************************)
\* the loop has just summarised a file into a row with timing fields
RowWithTiming ==
    /\ connector \in {"rhino", "json"}
    /\ Processed /\ LastFile.kind \in {"csv", "json"}
    /\ result /= Unset /\ result /= None
    /\ connector = "json" => ~json_is_failed(LastFile)

(***************************************************************************)
(* C29: the rate is derived from the minutes rounded to 2 decimals: every  *)
(* file whose summed timing is positive but below 300 ms has               *)
(* elapsedMinutes = 0 and elementsPerMinute = 0 whatever its               *)
(* totalElements, so that a row can report a positive elapsedMillis and a  *)
(* positive totalElements with a zero rate; the rate is never computed     *)
(* by a division by zero: with elapsedMinutes = 0 it is 0.                 *)
(***************************************************************************)
C29_ShortTimingZeroRate ==
    RowWithTiming =>
        /\ (result.milliseconds > 0 /\ result.milliseconds < 300) =>
              /\ result.minutes = 0
              /\ result.element_per_min = 0
        /\ result.minutes = 0 => result.element_per_min = 0

\* a row with a positive time, positive elements and a zero rate
C29_Witness ==
    /\ RowWithTiming
    /\ result.milliseconds > 0 /\ result.milliseconds < 300
    /\ result.total_elements > 0
    /\ result.minutes = 0 /\ result.element_per_min = 0

(***************************************************************************)
(* The Save button of the GUI shells                                       *)
(***************************************************************************)
\* a click on Run
RunStarts == run_processing \/ run_processing_v2

\* the Run handler returns in this step
RunEnds == pc /= "idle" /\ pc' = "idle"

\* the ending Run failed: the processor raised
RunFailed == pc = "raised" \/ (connector = "tekla_v2" /\ HasNonFinite(results))

\* the summary of the files the ending Run was given, computed from the
\* files alone
RunSummary ==
    LET v2(f) == IF f.kind = "bad" THEN << >> ELSE << v2_summary(f) >>
        v2_rows == RowsFrom(ValidFiles(file_paths), v2)
        navis == ResultOf("navis", file_paths)
    IN  CASE connector \in {"tekla", "rhino"} -> ResultOf(connector, file_paths)
          [] connector = "navis" ->
               IF navis.export_df /= None /\ navis.read_df /= None
               THEN CombinedTables(navis.export_df, navis.read_df)
               ELSE IF navis.export_df /= None THEN navis.export_df
               ELSE navis.read_df
          [] connector = "tekla_v2" ->
               IF v2_rows = << >> THEN None ELSE v2_frame(v2_rows)

SaveStep ==
    /\ RunStarts => save_button' = "disabled"
    /\ run_processing => summary_df' = None
    /\ (save_button = "disabled" /\ save_button' = "normal") =>
          /\ RunEnds
          /\ ~RunFailed
          /\ summary_df' = RunSummary
    /\ (save_button = "normal" /\ save_button' = "normal") => summary_df' = summary_df
    /\ RunEnds => IF RunFailed THEN save_button' = "disabled"
                  ELSE ~is_saveable(RunSummary) => save_button' = "disabled"

====
